---- MODULE Spec2Model ----
(***************************************************************************)
(* Model of the agent orchestration engine of backend/app/agent.py:        *)
(* process_agent_request and the functions it calls, with the session      *)
(* history store shared by concurrently running requests.                  *)
(*                                                                         *)
(* Texts.  A text (a message, a completion, a tool content, a response)    *)
(* is a sequence of chunks.  A chunk is either [s |-> w], a brace-free     *)
(* word or phrase, or [j |-> v], the serialization of the JSON value v.    *)
(* A JSON value is [str |-> s], [obj |-> f] (f a function from keys to     *)
(* JSON values), [arr |-> seq], [bool |-> b] or [null |-> TRUE].           *)
(* Substring tests of the code on words and phrases are tables over the    *)
(* vocabulary of the model (Sub, phrase sets).  Messages are all lower     *)
(* case; the code lower-cases them before every test modelled here.        *)
(***************************************************************************)
EXTENDS Integers, Sequences, FiniteSets, TLC

(***************************************************************************)
(* JSON values and Python's dict / truthiness operations on them           *)
(***************************************************************************)
JStr(s) == [str |-> s]
JObj(f) == [obj |-> f]
JArr(q) == [arr |-> q]
JNull == [null |-> TRUE]
JTrue == [bool |-> TRUE]
JNum(n) == [num |-> n]
EmptyMap == [k \in {} |-> JNull]

IsDict(v) == DOMAIN v = {"obj"}
IsString(v) == DOMAIN v = {"str"}
IsNull(v) == DOMAIN v = {"null"}

\* key in d
Has(d, k) == k \in DOMAIN d.obj
\* d.get(k)  (None when absent)
Get(d, k) == IF Has(d, k) THEN d.obj[k] ELSE JNull
\* d.get(k, default)
GetOr(d, k, default) == IF Has(d, k) THEN d.obj[k] ELSE default
\* bool(v)
Truthy(v) ==
    IF IsString(v) THEN v.str # ""
    ELSE IF IsDict(v) THEN DOMAIN v.obj # {}
    ELSE IF DOMAIN v = {"arr"} THEN Len(v.arr) > 0
    ELSE IF DOMAIN v = {"bool"} THEN v.bool
    ELSE IF DOMAIN v = {"num"} THEN v.num # 0
    ELSE FALSE
\* a or b
Or(a, b) == IF Truthy(a) THEN a ELSE b
\* {**d, k: v}
With(d, k, v) == JObj([x \in DOMAIN d.obj \cup {k} |-> IF x = k THEN v ELSE d.obj[x]])
\* d without key k (dict.pop(k, None) on a copy)
Without(d, k) == JObj([x \in DOMAIN d.obj \ {k} |-> d.obj[x]])

(***************************************************************************)
(* Texts                                                                   *)
(***************************************************************************)
W(w) == [s |-> w]
J(v) == [j |-> v]
IsWord(c) == DOMAIN c = {"s"}
IsJson(c) == DOMAIN c = {"j"}
\* a text made of words
Words(q) == [i \in 1..Len(q) |-> W(q[i])]
\* a one-phrase text
Phrase(p) == <<W(p)>>
\* the serialization of one JSON value (json.dumps / FastMCP text content)
Dump(v) == <<J(v)>>

\* The word strings of a text that satisfy nothing but membership tests:
\* the set of strings occurring in a JSON value (keys and string leaves).
RECURSIVE StringsOf(_)
StringsOf(v) ==
    IF IsString(v) THEN {v.str}
    ELSE IF IsDict(v)
         THEN DOMAIN v.obj \cup UNION {StringsOf(v.obj[k]) : k \in DOMAIN v.obj}
    ELSE IF DOMAIN v = {"arr"}
         THEN UNION {StringsOf(v.arr[i]) : i \in 1..Len(v.arr)}
    ELSE {}

\* every string that occurs in the characters of a text
TextStrings(t) ==
    UNION {IF IsWord(t[i]) THEN {t[i].s} ELSE StringsOf(t[i].j) : i \in 1..Len(t)}

\* the current date, on the clock of the engine and on that of the tool backend
Today == "2025-08-15"
Tomorrow == "2025-08-16"
Yesterday == "2025-08-14"
NextMonday == "2025-08-18"
IsoDates == {Today, Tomorrow, Yesterday, NextMonday}

(***************************************************************************)
(* Messages: vocabulary and the substring tables of the code's patterns    *)
(***************************************************************************)
weekdays == <<"monday", "tuesday", "wednesday", "thursday", "friday", "saturday", "sunday">>
tomorrow_variants == <<"tomorrow", "tommor", "tmrw", "tmr">>

\* Sub(w): the literals of the code's patterns and keyword lists that occur
\* as substrings of the word w ("iso" stands for \d{4}-\d{2}-\d{2}).
Sub(w) ==
    CASE w = "list" -> {"list"}
      [] w = "show" -> {"show"}
      [] w = "appointments" -> {"appointment"}
      [] w = "appointment" -> {"appointment"}
      [] w = "patients" -> {"patient"}
      [] w = "with" -> {"with"}
      [] w = "having" -> {"having"}
      [] w = "today" -> {"today"}
      [] w = "today's" -> {"today"}
      [] w = "tomorrow" -> {"tomorrow"}
      [] w = "tmrw" -> {"tmrw", "tmr"}
      [] w = "yesterday" -> {"yesterday"}
      [] w = "monday" -> {"monday", "on"}
      [] w = "mondays" -> {"monday", "on"}
      [] w = "friday" -> {"friday"}
      [] w = "available" -> {"available"}
      [] w = "slots" -> {"slot"}
      [] w = "book" -> {"book"}
      [] w = "send" -> {"send"}
      [] w = "slack" -> {"slack"}
      [] w = "summary" -> {"summary"}
      [] w = "for" -> {"for"}
      [] w = "on" -> {"on"}
      [] w = "dr" -> {"dr"}
      [] w = "morning" -> {"morning"}
      [] w = "afternoon" -> {"afternoon"}
      [] w = "evening" -> {"evening"}
      [] w \in IsoDates -> {"iso"}
      [] OTHER -> {}

\* words made of letters only ([a-zA-Z]+)
Alphabetic(w) == w \notin IsoDates /\ w # "today's"

\* literal in text  (a literal with a space spans two adjacent words)
HasAt(t, i, lit) ==
    IF lit = "how many"
    THEN i < Len(t) /\ t[i].s = "how" /\ t[i + 1].s = "many"
    ELSE IF lit \in {"next " \o weekdays[d] : d \in 1..Len(weekdays)}
    THEN i < Len(t) /\ t[i].s = "next"
         /\ \E end \in {"", "s", "'s"} : "next " \o t[i + 1].s = lit \o end
    ELSE lit \in Sub(t[i].s)
Span(lit) == IF lit = "how many" \/ lit \in {"next " \o weekdays[d] : d \in 1..Len(weekdays)} THEN 2 ELSE 1
Contains(t, lit) == \E i \in 1..Len(t) : HasAt(t, i, lit)

\* re.search of a pattern lit1.*lit2.*...; pat is a sequence of sets of
\* alternative literals, matched left to right on disjoint words from
\* position from on.
RECURSIVE SearchFrom(_, _, _)
SearchFrom(t, pat, from) ==
    IF pat = <<>> THEN TRUE
    ELSE \E i \in from..Len(t) : \E lit \in Head(pat) :
            HasAt(t, i, lit) /\ SearchFrom(t, Tail(pat), i + Span(lit))
Search(t, pat) == SearchFrom(t, pat, 1)

DateWords == {"today", "tomorrow", "yesterday", "iso"}
\* data_query_patterns of process_llm_response, in order
data_query_patterns ==
    << <<{"list"}, {"appointment"}>>,
       <<{"show"}, {"appointment"}>>,
       <<{"how many"}, {"appointment"}>>,
       <<{"patient"}, {"with", "having"}>>,
       <<{"appointment"}, DateWords>>,
       <<{"available"}, {"slot"}>>,
       <<{"book"}, {"appointment"}>>,
       <<{"send"}, {"slack"}>>,
       <<{"slack"}, {"summary"}>>,
       <<{"summary"}, {"slack"}>>,
       <<{"summary"}, {"for", "on"}, DateWords>> >>

is_data_query(message) ==
    \E p \in 1..Len(data_query_patterns) : Search(message, data_query_patterns[p])

\* a tomorrow variant looked for as the word "tomorrow" only
is_tomorrow_variant_exact(text) == \E i \in 1..Len(text) : "tomorrow" \in Sub(text[i].s)
\* is_tomorrow_variant: one of the spellings of tomorrow occurs in the text
is_tomorrow_variant(text) ==
    \E v \in 1..Len(tomorrow_variants) : Contains(text, tomorrow_variants[v])

\* The keyword chosen by resolve_relative_dates ("" when there is none):
\* the weekday loop stops at the first weekday, in list order, that occurs.
RECURSIVE WeekdayKeyword(_, _)
WeekdayKeyword(message, d) ==
    IF d > Len(weekdays) THEN ""
    ELSE IF Contains(message, "next " \o weekdays[d]) THEN "next " \o weekdays[d]
    ELSE IF Contains(message, weekdays[d]) THEN weekdays[d]
    ELSE WeekdayKeyword(message, d + 1)

select_keyword(message) ==
    LET wk == WeekdayKeyword(message, 1) IN
    IF wk # "" THEN wk
    ELSE IF is_tomorrow_variant(message) THEN "tomorrow"
    ELSE IF Contains(message, "yesterday") THEN "yesterday"
    ELSE IF Contains(message, "today") THEN "today"
    ELSE ""

\* replace_relative_date: pattern \bkeyword(?:'s)?\b, every occurrence
\* replaced by resolved_date.  A keyword "next <day>" spans two words.
RECURSIVE ReplaceFrom(_, _, _, _)
ReplaceFrom(text, resolved_date, keyword, i) ==
    IF i > Len(text) THEN <<>>
    ELSE IF Span(keyword) = 2
    THEN IF i < Len(text) /\ text[i].s = "next"
            /\ (("next " \o text[i + 1].s = keyword) \/ ("next " \o text[i + 1].s = keyword \o "'s"))
         THEN <<W(resolved_date)>> \o ReplaceFrom(text, resolved_date, keyword, i + 2)
         ELSE <<text[i]>> \o ReplaceFrom(text, resolved_date, keyword, i + 1)
    ELSE IF text[i].s = keyword \/ text[i].s = keyword \o "'s"
         THEN <<W(resolved_date)>> \o ReplaceFrom(text, resolved_date, keyword, i + 1)
         ELSE <<text[i]>> \o ReplaceFrom(text, resolved_date, keyword, i + 1)
\* the first occurrence replaced only: the keyword's first position in text
FirstAt(text, keyword) ==
    LET hits == {i \in 1..Len(text) :
                   IF Span(keyword) = 2
                   THEN i < Len(text) /\ text[i].s = "next"
                        /\ "next " \o text[i + 1].s \in {keyword, keyword \o "'s"}
                   ELSE text[i].s \in {keyword, keyword \o "'s"}}
    IN  IF hits = {} THEN 0 ELSE CHOOSE i \in hits : \A k \in hits : i <= k
replace_relative_date_once(text, resolved_date, keyword) ==
    LET i == FirstAt(text, keyword) IN
    IF i = 0 THEN text
    ELSE SubSeq(text, 1, i - 1) \o <<W(resolved_date)>>
         \o SubSeq(text, i + Span(keyword), Len(text))

replace_relative_date(text, resolved_date, keyword) ==
    ReplaceFrom(text, resolved_date, keyword, 1)


(***************************************************************************)
(* Policy Enforcer: force_tool_usage's choice of tool and arguments        *)
(***************************************************************************)
\* the longest prefix of w made of letters
AlphaPrefix(w) == IF w \in IsoDates THEN "" ELSE IF w = "today's" THEN "today" ELSE w
\* str.capitalize() / str.title() of a lower-case word of the vocabulary
Cap(w) ==
    CASE w = "ahuja" -> "Ahuja"
      [] w = "today" -> "Today"
      [] w = "tomorrow" -> "Tomorrow"
      [] w = "monday" -> "Monday"
      [] w = "next" -> "Next"
      [] w = "morning" -> "Morning"
      [] w = "jane" -> "Jane"
      [] w = "doe" -> "Doe"
      [] w = "how" -> "How"
      [] w = "many" -> "Many"
      [] w = "list" -> "List"
      [] w = "appointments" -> "Appointments"
      [] w = "patients" -> "Patients"
      [] w = "with" -> "With"
      [] w = "available" -> "Available"
      [] w = "slots" -> "Slots"
      [] w = "dr" -> "Dr"
      [] w = "slack" -> "Slack"
      [] w = "summary" -> "Summary"
      [] OTHER -> w

\* [a-zA-Z\s]+ matched from word i on: the words it covers, as one string
\* (stripped); title-cased when title is TRUE.
RECURSIVE LetterRun(_, _, _)
LetterRun(t, i, title) ==
    IF i > Len(t) \/ AlphaPrefix(t[i].s) = "" THEN ""
    ELSE LET w == IF title THEN Cap(AlphaPrefix(t[i].s)) ELSE AlphaPrefix(t[i].s)
             rest == IF Alphabetic(t[i].s) THEN LetterRun(t, i + 1, title) ELSE ""
         IN  IF rest = "" THEN w ELSE w \o " " \o rest

\* positions i where literal lit ends word i and letters follow after whitespace
FollowedByLetters(t, lits) ==
    {i \in 1..(Len(t) - 1) : t[i].s \in lits /\ AlphaPrefix(t[i + 1].s) # ""}
Max(S) == CHOOSE x \in S : \A y \in S : y <= x
Min(S) == CHOOSE x \in S : \A y \in S : x <= y

\* the date taken from an ISO date of the message only, today otherwise
query_date_iso_or_today(message) ==
    LET isos == {i \in 1..Len(message) : message[i].s \in IsoDates} IN
    IF isos # {} THEN message[Min(isos)].s ELSE Today

\* query_date of force_tool_usage
query_date(message) ==
    LET isos == {i \in 1..Len(message) : message[i].s \in IsoDates} IN
    IF isos # {} THEN message[Min(isos)].s
    ELSE IF Contains(message, "today") THEN Today
    ELSE IF Contains(message, "tomorrow") THEN Tomorrow
    ELSE IF Contains(message, "yesterday") THEN Yesterday
    ELSE Today

\* patients?.*(with|having)\s+([a-zA-Z\s]+): the positions of a with/having
\* that follows "patient" and is followed by letters
PatientClauses(message) ==
    {i \in FollowedByLetters(message, {"with", "having"}) :
        \E p \in 1..(i - 1) : "patient" \in Sub(message[p].s)}

\* the arguments of a summary call that does not notify
slack_summary_args_plain(qd) == JObj([query |-> JObj([for_date |-> qd])])

\* line 611: the arguments of the Slack summary call
slack_summary_args(qd) == JObj([query |-> JObj([for_date |-> qd, notify |-> JTrue])])

\* the listing pattern tried before the count pattern
selected_pattern_list_first(message) ==
    IF Search(message, <<{"list", "show"}, {"appointment"}>>) THEN "list"
    ELSE IF Search(message, <<{"how many"}, {"appointment"}>>) THEN "count"
    ELSE IF PatientClauses(message) # {} THEN "patients"
    ELSE IF Search(message, <<{"available"}, {"slot"}>>) THEN "availability"
    ELSE IF Search(message, <<{"send"}, {"slack"}>>)
            \/ Search(message, <<{"slack"}, {"summary"}>>)
            \/ Search(message, <<{"summary"}, {"slack"}>>) THEN "slack"
    ELSE "default"

\* lines 589-613: the first branch of the if/elif chain whose pattern matches
selected_pattern(message) ==
    IF Search(message, <<{"how many"}, {"appointment"}>>) THEN "count"
    ELSE IF Search(message, <<{"list", "show"}, {"appointment"}>>) THEN "list"
    ELSE IF PatientClauses(message) # {} THEN "patients"
    ELSE IF Search(message, <<{"available"}, {"slot"}>>) THEN "availability"
    ELSE IF Search(message, <<{"send"}, {"slack"}>>)
            \/ Search(message, <<{"slack"}, {"summary"}>>)
            \/ Search(message, <<{"summary"}, {"slack"}>>) THEN "slack"
    ELSE "default"

forced_call(message) ==
    LET qd == JStr(query_date(message))
        branch == selected_pattern(message)
    IN
    IF branch = "count"
    THEN [tool_name |-> "appointment_stats_tool",
          tool_args |-> JObj([query |-> JObj([for_date |-> qd])])]
    ELSE IF branch = "list"
    THEN [tool_name |-> "list_appointments_tool",
          tool_args |-> JObj([query |-> JObj([for_date |-> qd])])]
    ELSE IF branch = "patients"
    THEN [tool_name |-> "patients_by_reason_tool",
          tool_args |-> JObj([query |-> JObj([
              reason_like |-> JStr(LetterRun(message, Max(PatientClauses(message)) + 1, FALSE)),
              for_date |-> qd])])]
    ELSE IF branch = "availability"
    THEN LET drs == FollowedByLetters(message, {"dr", "dr."}) IN
         [tool_name |-> "check_doctor_availability",
          tool_args |-> JObj([query |-> JObj([
              doctor_name |-> JStr(IF drs # {}
                                   THEN "Dr. " \o LetterRun(message, Min(drs) + 1, TRUE)
                                   ELSE "Dr. Ahuja"),
              date |-> qd])])]
    ELSE IF branch = "slack"
    THEN [tool_name |-> "appointment_stats_tool", tool_args |-> slack_summary_args(qd)]
    ELSE [tool_name |-> "appointment_stats_tool",
          tool_args |-> JObj([query |-> JObj([for_date |-> qd])])]

\* extract_doctor_and_period: "" stands for None
doctor_of(text) ==
    LET drs == FollowedByLetters(text, {"dr", "dr."}) IN
    IF drs = {} THEN ""
    ELSE LET i == Min(drs) + 1
             second == IF i < Len(text) /\ AlphaPrefix(text[i + 1].s) # ""
                       THEN " " \o Cap(text[i + 1].s) ELSE ""
         IN  "Dr. " \o Cap(text[i].s) \o second
period_of(text) ==
    IF \E i \in 1..Len(text) : text[i].s = "morning" THEN "morning"
    ELSE IF \E i \in 1..Len(text) : text[i].s = "afternoon" THEN "afternoon"
    ELSE IF \E i \in 1..Len(text) : text[i].s = "evening" THEN "evening"
    ELSE ""

(***************************************************************************)
(* Plan Extractor                                                          *)
(***************************************************************************)
\* words that carry an opening brace that does not start a JSON object
BraceWords == {"{oops"}

\* the object that starts at the first "{" of the serialization of v
\* (JNull when the serialization has no brace)
RECURSIVE FirstDict(_)
FirstDict(v) ==
    IF IsDict(v) THEN v
    ELSE IF DOMAIN v = {"arr"}
    THEN LET hits == {i \in 1..Len(v.arr) : ~IsNull(FirstDict(v.arr[i]))} IN
         IF hits = {} THEN JNull ELSE FirstDict(v.arr[Min(hits)])
    ELSE JNull

\* strings that carry a closing brace
BraceStrings == {"a}"}
\* line 66: the scan stops once it is more than ScanLimit characters past
\* the first "{"
ScanLimit == 10000

\* the number of characters of json.dumps(v)
RECURSIVE SerializedLen(_), MembersLen(_, _), ItemsLen(_, _)
MembersLen(o, keys) ==
    IF keys = {} THEN 0
    ELSE LET k == CHOOSE x \in keys : TRUE IN
         Len(k) + 4 + SerializedLen(o[k]) + (IF keys = {k} THEN 0 ELSE 2)
         + MembersLen(o, keys \ {k})
ItemsLen(a, i) ==
    IF i > Len(a) THEN 0
    ELSE SerializedLen(a[i]) + (IF i < Len(a) THEN 2 ELSE 0) + ItemsLen(a, i + 1)
SerializedLen(v) ==
    IF IsString(v) THEN Len(v.str) + 2
    ELSE IF IsDict(v) THEN 2 + MembersLen(v.obj, DOMAIN v.obj)
    ELSE IF DOMAIN v = {"arr"} THEN 2 + ItemsLen(v.arr, 1)
    ELSE IF DOMAIN v = {"num"} THEN (IF v.num < 10 THEN 1 ELSE IF v.num < 100 THEN 2 ELSE 3)
    ELSE IF DOMAIN v = {"bool"} THEN (IF v.bool THEN 4 ELSE 5)
    ELSE 4

\* lines 56-76: balancing the braces from the opening brace of the
\* serialization of the object d ends at its closing brace, and the
\* candidate parses: no brace stands in a string of d, and the closing brace
\* is read before the scan stops
scan_finds(d) ==
    /\ StringsOf(d) \cap BraceStrings = {}
    /\ SerializedLen(d) - 1 <= ScanLimit + 1

\* chunk c contains the character "{"
HasBrace(c) == IF IsWord(c) THEN c.s \in BraceWords ELSE ~IsNull(FirstDict(c.j))

\* the extraction without the attempt to parse the whole text
extract_tool_plan_by_scan(text) ==
    IF Len(text) = 0 THEN JNull
    ELSE LET braces == {i \in 1..Len(text) : HasBrace(text[i])} IN
         IF braces = {} THEN JNull
         ELSE LET c == text[Min(braces)] IN
              IF IsWord(c) THEN JNull
              ELSE IF scan_finds(FirstDict(c.j)) THEN FirstDict(c.j) ELSE JNull

\* extract_tool_plan: the dict, or JNull for None
extract_tool_plan(text) ==
    IF Len(text) = 0 THEN JNull
    ELSE IF Len(text) = 1 /\ IsJson(text[1]) /\ IsDict(text[1].j) THEN text[1].j
    ELSE LET braces == {i \in 1..Len(text) : HasBrace(text[i])} IN
         IF braces = {} THEN JNull
         ELSE LET c == text[Min(braces)] IN
              IF IsWord(c) THEN JNull
              ELSE IF scan_finds(FirstDict(c.j)) THEN FirstDict(c.j) ELSE JNull

(***************************************************************************)
(* Argument Normalizer                                                     *)
(***************************************************************************)
\* str(n) of a small number
NumStr(n) ==
    CASE n = 0 -> "0" [] n = 1 -> "1" [] n = 2 -> "2" [] n = 3 -> "3" [] n = 4 -> "4"
      [] n = 5 -> "5" [] n = 6 -> "6" [] n = 7 -> "7" [] n = 8 -> "8" [] n = 9 -> "9"
      [] n = 10 -> "10" [] n = 11 -> "11" [] n = 12 -> "12" [] OTHER -> "many"

\* the string form of strings only, every other value giving ""
Str_of_strings(v) == IF IsString(v) THEN v.str ELSE ""
\* str(v) of a value that is not a dict
Str(v) ==
    IF IsString(v) THEN v.str
    ELSE IF IsNull(v) THEN "None"
    ELSE IF DOMAIN v = {"bool"} THEN (IF v.bool THEN "True" ELSE "False")
    ELSE IF DOMAIN v = {"num"} THEN NumStr(v.num)
    ELSE IF v.arr = <<>> THEN "[]"
    ELSE "[...]"

DataTools == {"book_appointment_tool", "register_patient_tool", "cancel_appointments_by_date_tool"}
QueryTools == {"list_appointments_tool", "patients_by_reason_tool", "appointment_stats_tool", "check_doctor_availability"}

\* a map wrapped under "data" whether or not it already has the shape
normalize_data_args_wrapping(args) == JObj([data |-> args])

\* lines 126-129: a map for a tool that takes its arguments under "data"
normalize_data_args(args) ==
    IF Has(args, "data") /\ IsDict(args.obj["data"]) THEN args
    ELSE JObj([data |-> args])

\* the key copied under its new name and left in place
remapped_keeping_both(payload, old, new) ==
    IF Has(payload, old) /\ ~Has(payload, new)
    THEN With(payload, new, Get(payload, old))
    ELSE payload
\* lines 112-114 and 118-121: the value of key old moved to key new in a
\* copy of the payload, when the payload has old and has no new
remapped(payload, old, new) ==
    IF Has(payload, old) /\ ~Has(payload, new)
    THEN Without(With(payload, new, Get(payload, old)), old)
    ELSE payload

normalize_tool_arguments(tool_name, args) ==
    IF ~IsDict(args)
    THEN IF tool_name = "resolve_date_tool" THEN JObj([text |-> JStr(Str(args))])
         ELSE IF tool_name = "sql_read_tool" THEN JObj([sql |-> JStr(Str(args))])
         ELSE IF tool_name \in DataTools THEN JObj([data |-> JObj([raw |-> JStr(Str(args))])])
         ELSE IF tool_name = "check_doctor_availability"
              THEN JObj([query |-> JObj([text |-> JStr(Str(args))])])
         ELSE JObj([query |-> JObj([raw |-> JStr(Str(args))])])
    ELSE IF tool_name = "resolve_date_tool"
    THEN LET text == Or(Or(Or(Get(args, "text"), Get(args, "date_string")), Get(args, "date")),
                        Get(args, "query"))
         IN  JObj([text |-> IF ~Truthy(text) \/ ~IsString(text) THEN JStr("") ELSE text])
    ELSE IF tool_name = "sql_read_tool"
    THEN LET r0 == JObj([sql |-> Or(Or(Get(args, "sql"), Get(args, "query")), JStr(""))])
             r1 == IF Has(args, "params") THEN With(r0, "params", args.obj["params"]) ELSE r0
         IN  IF Has(args, "row_limit") THEN With(r1, "row_limit", args.obj["row_limit"]) ELSE r1
    ELSE IF tool_name \in QueryTools
    THEN LET p0 == IF IsDict(Get(args, "query")) THEN Get(args, "query") ELSE args
             p1 == IF tool_name = "appointment_stats_tool"
                   THEN remapped(p0, "date", "for_date") ELSE p0
             p2 == IF tool_name = "patients_by_reason_tool"
                   THEN remapped(p1, "condition_like", "reason_like") ELSE p1
         IN  JObj([query |-> p2])
    ELSE IF tool_name \in DataTools
    THEN normalize_data_args(args)
    ELSE args

(***************************************************************************)
(* Response Formatter                                                      *)
(***************************************************************************)
\* The code's en dash, em dash and ellipsis are written -, -- and ... here.
\* f"{v}" of a JSON value
Fmt(v) ==
    IF IsString(v) THEN v.str
    ELSE IF DOMAIN v = {"num"} THEN NumStr(v.num)
    ELSE Str(v)

\* json.loads reading a value at the start of the content, whatever follows
Parses_leading_value(content) == Len(content) >= 1 /\ IsJson(content[1])
\* json.loads(content) succeeds
Parses(content) == Len(content) = 1 /\ IsJson(content[1])
Loads(content) == content[1].j

\* the slot strings the availability tool produces, and their rendering
SlotA == "2025-08-16T09:00:00+00:00-2025-08-16T09:30:00+00:00"
SlotB == "2025-08-16T09:30:00-2025-08-16T10:00:00"
SlotLine(slot) ==
    IF IsString(slot) /\ slot.str = SlotA THEN "- 2025-08-16 09:00-09:30" ELSE "- " \o Fmt(slot)

\* datetime.fromisoformat(x).strftime("%H:%M"); "" when fromisoformat raises
HourMinute(x) ==
    IF ~IsString(x) THEN ""
    ELSE CASE x.str = "2025-08-15T09:00:00" -> "09:00"
           [] x.str = "2025-08-15T09:30:00" -> "09:30"
           [] OTHER -> ""

\* the whole sequence, whatever the limit
TakeAll(q, n) == q

\* the first n elements of a sequence (q[:n])
Take(q, n) == SubSeq(q, 1, IF Len(q) < n THEN Len(q) ELSE n)
SlotLimit == 6
ListLimit == 10

MoreLine(n, limit) == IF n > limit THEN <<W("...and " \o NumStr(n - limit) \o " more")>> ELSE <<>>

format_availability_response(content) ==
    IF ~Parses(content) \/ ~IsDict(Loads(content)) THEN content
    ELSE LET data == Loads(content)
             doctor_name == GetOr(data, "doctor_name", JStr("the doctor"))
             slots == GetOr(data, "available_slots", JArr(<<>>))
         IN  IF ~Truthy(slots)
             THEN Phrase("No available slots found for " \o Fmt(doctor_name) \o " in the next 3 weeks.")
             ELSE IF DOMAIN slots # {"arr"} THEN content
             ELSE <<W(Fmt(doctor_name) \o "'s next available slots:")>>
                  \o [i \in 1..Len(Take(slots.arr, SlotLimit)) |-> W(SlotLine(slots.arr[i]))]
                  \o MoreLine(Len(slots.arr), SlotLimit)
                  \o <<W("Which time works for you?")>>

RECURSIVE JoinItems(_, _)
JoinItems(d, keys) ==
    IF keys = {} THEN ""
    ELSE LET k == CHOOSE x \in keys : TRUE
             rest == JoinItems(d, keys \ {k})
         IN  k \o ": " \o Fmt(d.obj[k]) \o (IF rest = "" THEN "" ELSE ", " \o rest)

format_stats_response(content) ==
    IF ~Parses(content) \/ ~IsDict(Loads(content)) THEN content
    ELSE LET data == Loads(content)
             total == GetOr(data, "total_appointments", JNum(0))
             completed == GetOr(data, "completed", JNum(0))
             canceled == GetOr(data, "canceled", JNum(0))
             by_condition == Or(Get(data, "by_condition"), JObj(EmptyMap))
         IN  IF Truthy(Get(data, "slack_sent"))
             THEN Phrase("Appointment summary has been sent to Slack successfully!")
             ELSE IF Truthy(by_condition) /\ ~IsDict(by_condition) THEN content
             ELSE Phrase("Total appointments: " \o Fmt(total) \o "; Completed: " \o Fmt(completed)
                         \o "; Canceled: " \o Fmt(canceled)
                         \o (IF Truthy(by_condition)
                             THEN "; By reason: " \o JoinItems(by_condition, DOMAIN by_condition.obj)
                             ELSE ""))

\* an item of a listing whose start_at / end_at can be rendered
Timed(item) ==
    /\ IsDict(item) /\ Has(item, "start_at") /\ Has(item, "end_at")
    /\ HourMinute(item.obj["start_at"]) # "" /\ HourMinute(item.obj["end_at"]) # ""

AppointmentLine(appt) ==
    "- " \o Fmt(GetOr(appt, "doctor_name", JStr("Unknown Doctor")))
    \o " -- " \o Fmt(GetOr(appt, "patient_name", JStr("Unknown Patient")))
    \o " (" \o HourMinute(appt.obj["start_at"]) \o "-" \o HourMinute(appt.obj["end_at"]) \o ")"
    \o " -- " \o Fmt(Or(Get(appt, "description"), JStr("No reason")))
    \o " [#" \o Fmt(GetOr(appt, "appointment_id", JStr("N/A"))) \o "]"

format_appointments_list(content) ==
    IF ~Parses(content) \/ ~IsDict(Loads(content)) THEN content
    ELSE LET appointments == GetOr(Loads(content), "appointments", JArr(<<>>)) IN
         IF ~Truthy(appointments) THEN Phrase("No appointments found.")
         ELSE IF DOMAIN appointments # {"arr"} THEN content
         ELSE LET shown == Take(appointments.arr, ListLimit) IN
              IF \E i \in 1..Len(shown) : ~Timed(shown[i]) THEN content
              ELSE <<W("Appointments:")>>
                   \o [i \in 1..Len(shown) |-> W(AppointmentLine(shown[i]))]
                   \o MoreLine(Len(appointments.arr), ListLimit)

PatientLine(patient) ==
    "- " \o Fmt(GetOr(patient, "patient_name", JStr("Unknown")))
    \o " (" \o Fmt(GetOr(patient, "patient_email", JStr(""))) \o ")"
    \o " -- appt #" \o Fmt(GetOr(patient, "appointment_id", JStr("N/A")))
    \o " " \o HourMinute(patient.obj["start_at"]) \o "-" \o HourMinute(patient.obj["end_at"])

format_patients_by_reason(content) ==
    IF ~Parses(content) \/ ~IsDict(Loads(content)) THEN content
    ELSE LET patients == GetOr(Loads(content), "patients", JArr(<<>>)) IN
         IF ~Truthy(patients) THEN Phrase("No matching patients found.")
         ELSE IF DOMAIN patients # {"arr"} THEN content
         ELSE LET shown == Take(patients.arr, ListLimit) IN
              IF \E i \in 1..Len(shown) : ~Timed(shown[i]) THEN content
              ELSE <<W("Patients by reason:")>>
                   \o [i \in 1..Len(shown) |-> W(PatientLine(shown[i]))]
                   \o MoreLine(Len(patients.arr), ListLimit)

\* format_success_response; the error and message fields are strings
format_success_response(content) ==
    IF ~Parses(content) \/ ~IsDict(Loads(content)) THEN content
    ELSE LET data == Loads(content) IN
         IF Truthy(Get(data, "error")) THEN Phrase(Fmt(data.obj["error"]))
         ELSE Phrase(Fmt(GetOr(data, "message", JStr("Operation completed successfully."))))

\* the formatter with the error field of any result shown first
format_tool_response_error_first(tool_name, content) ==
    IF Parses(content) /\ IsDict(Loads(content)) /\ Truthy(Get(Loads(content), "error"))
    THEN format_success_response(content)
    ELSE IF tool_name = "check_doctor_availability" THEN format_availability_response(content)
    ELSE IF tool_name = "appointment_stats_tool" THEN format_stats_response(content)
    ELSE IF tool_name = "list_appointments_tool" THEN format_appointments_list(content)
    ELSE IF tool_name = "patients_by_reason_tool" THEN format_patients_by_reason(content)
    ELSE IF tool_name \in {"register_patient_tool", "book_appointment_tool"}
         THEN format_success_response(content)
    ELSE content
\* lines 134-150
format_tool_response(tool_name, content) ==
    IF tool_name = "check_doctor_availability" THEN format_availability_response(content)
    ELSE IF tool_name = "appointment_stats_tool" THEN format_stats_response(content)
    ELSE IF tool_name = "list_appointments_tool" THEN format_appointments_list(content)
    ELSE IF tool_name = "patients_by_reason_tool" THEN format_patients_by_reason(content)
    ELSE IF tool_name \in {"register_patient_tool", "book_appointment_tool"}
         THEN format_success_response(content)
    ELSE content

(***************************************************************************)
(* Tool backend (app/mcp_server.py behind an MCP client session): what a   *)
(* call_tool can return.  A call either raises or returns a content; the   *)
(* content of a tool that returns a dict is the serialization of the dict, *)
(* the content of a tool that failed inside the backend is an error text.  *)
(***************************************************************************)
ExcText == "connection closed"
BackendErrorText(tool_name) == Phrase("Error executing tool " \o tool_name \o ": failure")

\* resolve_date_tool on a keyword of resolve_relative_dates
resolved_date_of(text) ==
    IF text = "tomorrow" THEN Tomorrow
    ELSE IF text = "today" THEN Today
    ELSE IF text = "yesterday" THEN Yesterday
    ELSE IF text = "" THEN ""
    ELSE NextMonday

PatientNotFound == "Patient not found"
BookedMessage == "Booked appointment #1 with Dr. Ahuja for Jane Doe."
RegisteredMessage == "Patient Jane Doe registered successfully"
AlreadyExists == "Patient with email jane.doe77@mail.com already exists"

AppointmentRow ==
    JObj([appointment_id |-> JNum(1), doctor_name |-> JStr("Dr. Ahuja"),
          patient_name |-> JStr("Jane Doe"), patient_email |-> JStr("jane.doe77@mail.com"),
          start_at |-> JStr("2025-08-15T09:00:00"), end_at |-> JStr("2025-08-15T09:30:00"),
          description |-> JStr("fever"), status |-> JStr("scheduled")])

ToolContents(tool_name, args) ==
    CASE tool_name = "resolve_date_tool" ->
            { IF IsDict(args) /\ IsString(Get(args, "text")) /\ Get(args, "text").str # ""
              THEN Dump(JObj([date |-> JStr(resolved_date_of(Get(args, "text").str))]))
              ELSE Dump(JObj([error |-> JStr("empty text")])),
              BackendErrorText(tool_name) }
      [] tool_name = "check_doctor_availability" ->
            { Dump(JObj([error |-> JStr("Doctor not found")])),
              Dump(JObj([doctor_id |-> JNum(1), doctor_name |-> JStr("Dr. Ahuja"),
                         available_slots |-> JArr(<<>>)])),
              Dump(JObj([doctor_id |-> JNum(1), doctor_name |-> JStr("Dr. Ahuja"),
                         available_slots |-> JArr(<<JStr(SlotA), JStr(SlotB)>>)])) }
      [] tool_name = "appointment_stats_tool" ->
            { Dump(JObj([total_appointments |-> JNum(1), completed |-> JNum(0),
                         canceled |-> JNum(0), by_condition |-> JObj([fever |-> JNum(1)])])),
              Dump(JObj([total_appointments |-> JNum(0), completed |-> JNum(0),
                         canceled |-> JNum(0), by_condition |-> JObj(EmptyMap),
                         slack_sent |-> JTrue])) }
      [] tool_name = "list_appointments_tool" ->
            { Dump(JObj([appointments |-> JArr(<<>>)])),
              Dump(JObj([appointments |-> JArr(<<AppointmentRow>>)])) }
      [] tool_name = "patients_by_reason_tool" ->
            { Dump(JObj([patients |-> JArr(<<>>)])),
              Dump(JObj([patients |-> JArr(<<AppointmentRow>>)])) }
      [] tool_name = "book_appointment_tool" ->
            { Dump(JObj([error |-> JStr(PatientNotFound)])),
              Dump(JObj([appointment_id |-> JNum(1), calendar_event_id |-> JStr(""),
                         message |-> JStr(BookedMessage)])) }
      [] tool_name = "register_patient_tool" ->
            { Dump(JObj([message |-> JStr(RegisteredMessage), patient_id |-> JNum(1)])),
              Dump(JObj([error |-> JStr(AlreadyExists)])),
              BackendErrorText(tool_name) }
      [] tool_name = "sql_read_tool" ->
            { Dump(JObj([error |-> JStr("Only SELECT queries are allowed")])) }
      [] OTHER -> { Phrase("Unknown tool: " \o tool_name) }

\* the outcomes of session.call_tool(tool_name, args)
Outcomes(tool_name, args) ==
    {[raised |-> TRUE, content |-> <<>>]}
    \cup {[raised |-> FALSE, content |-> c] : c \in ToolContents(tool_name, args)}

\* substring tests of the code on texts
HasPatientNotFound(text) == PatientNotFound \in TextStrings(text)
success_keywords == {"successfully", "registered", "created", "added"}
\* the strings of the model that contain a success keyword (lower-cased)
SuccessStrings == {RegisteredMessage}
\* a registration that is taken to have succeeded whatever it returned
registration_success_always(register_content) == TRUE

registration_success(register_content) == TextStrings(register_content) \cap SuccessStrings # {}

\* str.lower() of the phrases that are lower-cased by the code
Lower(w) ==
    CASE w = "Date" -> "date"
      [] w = BookedMessage -> "booked appointment #1 with dr. ahuja for jane doe."
      [] w = PatientNotFound -> "patient not found"
      [] OTHER -> w
LowerText(t) == [i \in 1..Len(t) |-> IF IsWord(t[i]) THEN W(Lower(t[i].s)) ELSE t[i]]

\* any text that is not empty taken for a date-resolution reply
starts_with_sentinel_any(text) == Len(text) > 0

\* response_text.strip().lower().startswith("date resolved to ")
starts_with_sentinel(text) ==
    /\ Len(text) >= 4
    /\ \A i \in 1..3 : IsWord(text[i])
    /\ <<Lower(text[1].s), Lower(text[2].s), Lower(text[3].s)>> = <<"date", "resolved", "to">>
\* response_text.strip().split()[-1].strip(". ")
\* the last token taken as it is written
StripDot_kept(w) == w

StripDot(w) == IF w = "2025-08-18." THEN "2025-08-18" ELSE w
last_token(text) == IF IsWord(text[Len(text)]) THEN StripDot(text[Len(text)].s) ELSE "}"

\* Characters.  An email is a string; its local part is examined character
\* by character, as a sequence of one-character strings.
Separators == {".", "_", "-"}
Digits == {"0", "7"}
LowerLetters == {"a", "d", "e", "j", "n", "o"}
UpperLetters == {"A", "D", "E", "J", "N", "O"}
IsLetter(c) == c \in LowerLetters \cup UpperLetters
\* str.upper() and str.lower() of a character
UpperOf(c) ==
    CASE c = "a" -> "A" [] c = "d" -> "D" [] c = "e" -> "E" [] c = "j" -> "J"
      [] c = "n" -> "N" [] c = "o" -> "O" [] OTHER -> c
LowerOf(c) ==
    CASE c = "A" -> "a" [] c = "D" -> "d" [] c = "E" -> "e" [] c = "J" -> "j"
      [] c = "N" -> "n" [] c = "O" -> "o" [] OTHER -> c

\* "".join(cs)
RECURSIVE Concat(_)
Concat(cs) == IF cs = <<>> THEN "" ELSE cs[1] \o Concat(Tail(cs))

\* longest local part drawn character by character
MaxChars == 3
NameChars == {"j", "D", ".", "_", "-", "7", "+"}
JaneDoe77 == <<"j", "a", "n", "e", ".", "d", "o", "e", "7", "7">>
NameParts == UNION {[1..n -> NameChars] : n \in 0..MaxChars} \cup {JaneDoe77}
EmailDomain == "@mail.com"
EmailOfPart(name_part) == Concat(name_part) \o EmailDomain

\* line 662: . _ - replaced by a space
spaced(cs) == [i \in 1..Len(cs) |-> IF cs[i] \in Separators THEN " " ELSE cs[i]]
\* line 665: re.sub(r'[0-9]+', '', ...)
NotDigit(c) == c \notin Digits
\* line 666: re.sub(r'[^a-zA-Z\s]', '', ...)
LetterOrSpace(c) == IsLetter(c) \/ c = " "
\* str.split(): the maximal runs of characters other than spaces
RECURSIVE SplitFrom(_, _, _)
SplitFrom(cs, i, word) ==
    IF i > Len(cs) THEN (IF word = <<>> THEN <<>> ELSE <<word>>)
    ELSE IF cs[i] = " "
         THEN (IF word = <<>> THEN <<>> ELSE <<word>>) \o SplitFrom(cs, i + 1, <<>>)
         ELSE SplitFrom(cs, i + 1, Append(word, cs[i]))
split(cs) == SplitFrom(cs, 1, <<>>)

\* a word left as it is written
capitalize_as_written(word) == Concat(word)

\* str.capitalize(): first character upper case, the others lower case
capitalize(word) ==
    Concat([i \in 1..Len(word) |-> IF i = 1 THEN UpperOf(word[i]) ELSE LowerOf(word[i])])

\* " ".join(words)
RECURSIVE JoinWords(_)
JoinWords(words) ==
    IF words = <<>> THEN ""
    ELSE IF Len(words) = 1 THEN words[1]
    ELSE words[1] \o " " \o JoinWords(Tail(words))

\* lines 662-673: the display name derived from the local part
display_name(name_part) ==
    LET name_cleaned == SelectSeq(SelectSeq(spaced(name_part), NotDigit), LetterOrSpace)
        words == split(name_cleaned)
        patient_name == JoinWords([i \in 1..Len(words) |-> capitalize(words[i])])
    IN  IF patient_name = "" THEN "User " \o Concat(name_part) ELSE patient_name

\* the display name handle_patient_registration_and_booking derives from
\* the email
\* the email and the display name of every local part of the model: the
\* local part is what stands before "@" (line 660), and the derivation of
\* lines 662-673 is applied once to each
DisplayNames == {<<EmailOfPart(cs), display_name(cs)>> : cs \in NameParts}
patient_name_of(email) == (CHOOSE p \in DisplayNames : p[1] = email)[2]

(***************************************************************************)
(* Inputs: the messages clients send and the completions the model returns *)
(***************************************************************************)
\* the empty text
NoText == <<>>

Sessions == {"s1", "s2"}
Req == {"r1", "r2"}
FirstSlot == "r1"
\* messages accepted in a run in which requests are served one at a time
MaxMessages == 1

Messages ==
    { Words(<<"list", "appointments", "tomorrow">>),
      Words(<<"hello">>),
      Words(<<"summary", "for", "monday">>),
      Words(<<"book", "appointment", "dr", "ahuja">>),
      Words(<<"dr", "ahuja", "next", "monday", "morning">>) }

BookingData ==
    [doctor_name |-> JStr("Dr. Ahuja"), patient_email |-> JStr("jane.doe77@mail.com"),
     start_at |-> JStr("2025-09-01T09:00"), end_at |-> JStr("2025-09-01T09:30")]
BookingPlan ==
    JObj([action |-> JStr("tool"), tool_name |-> JStr("book_appointment_tool"),
          args |-> JObj([data |-> JObj(BookingData)])])
BookingPlanNoEmail ==
    JObj([action |-> JStr("tool"), tool_name |-> JStr("book_appointment_tool"),
          args |-> JObj([doctor_name |-> JStr("Dr. Ahuja")])])
ResolvePlan ==
    JObj([action |-> JStr("tool"), tool_name |-> JStr("resolve_date_tool"),
          args |-> JObj([date_string |-> JStr("next monday")])])
ActionOnlyPlan ==
    JObj([action |-> JStr("list_appointments_tool"),
          args |-> JObj([for_date |-> JStr(Today)])])
FinalAnswer == JObj([action |-> JStr("final"), text |-> JStr("You have no appointments.")])

\* texts the model can return (already stripped)
Completions ==
    { NoText,
      Phrase("You have 3 appointments with John Doe."),
      Words(<<"Date", "resolved", "to", "2025-08-18.">>),
      Dump(BookingPlan),
      Dump(BookingPlanNoEmail),
      <<W("Sure:"), J(ResolvePlan)>>,
      Dump(ActionOnlyPlan),
      Dump(FinalAnswer),
      Dump(JObj(EmptyMap)),
      <<W("{oops")>> }

(***************************************************************************)
(* Appointment store (app/repositories.py on the appointments table of     *)
(* app/models.py, behind book_appointment_tool and the cancel tools of     *)
(* app/mcp_server.py).  Instants are counted in half hours: instant        *)
(* day * DayLen + u is the clock time u / 2 hours of the day; DayLen is    *)
(* timedelta(days=1) in half hours.                                        *)
(***************************************************************************)
DayLen == 48
Days == 0..1
\* date.weekday() of the two days (a Friday and a Saturday)
weekday(day) == 4 + day
Doctors == {1, 2}
\* the rows of doctor_availability: doctor 1 works on Fridays from 09:00 to
\* 10:30 and from 14:00 to 14:30, doctor 2 on Saturdays from 09:00 to 09:30
Availability(doctor_id, day_of_week) ==
    IF doctor_id = 1 /\ day_of_week = 4
    THEN {[start_time |-> 18, end_time |-> 21], [start_time |-> 28, end_time |-> 29]}
    ELSE IF doctor_id = 2 /\ day_of_week = 5
    THEN {[start_time |-> 18, end_time |-> 19]}
    ELSE {}
NoPart == "none"
PartsOfDay == {NoPart, "morning", "afternoon", "evening"}

\* find_availability_slots, lines 67-71: the interval from a to b meets a
\* busy block
overlaps(busy_blocks, a, b) == \E blk \in busy_blocks : a < blk[2] /\ b > blk[1]

\* lines 79-88: the slot starting at clock time u is outside the part of day
outside_part(part_of_day, u) ==
    \/ part_of_day = "morning" /\ ~(12 <= u /\ u < 24)
    \/ part_of_day = "afternoon" /\ ~(24 <= u /\ u < 34)
    \/ part_of_day = "evening" /\ ~(34 <= u /\ u <= 42)

\* the slots of a window whatever its end
RECURSIVE window_slots_unbounded(_, _, _, _, _)
window_slots_unbounded(curr, end, slot_minutes, part_of_day, busy_blocks) ==
    IF curr <= end
    THEN LET next_t == curr + slot_minutes IN
         (IF outside_part(part_of_day, curr % DayLen) \/ overlaps(busy_blocks, curr, next_t)
          THEN {} ELSE {<<curr, next_t>>})
         \cup window_slots_unbounded(next_t, end, slot_minutes, part_of_day, busy_blocks)
    ELSE {}
\* lines 75-91: the while loop over one availability window, from curr on
RECURSIVE window_slots(_, _, _, _, _)
window_slots(curr, end, slot_minutes, part_of_day, busy_blocks) ==
    IF curr + slot_minutes <= end
    THEN LET next_t == curr + slot_minutes IN
         (IF outside_part(part_of_day, curr % DayLen) \/ overlaps(busy_blocks, curr, next_t)
          THEN {} ELSE {<<curr, next_t>>})
         \cup window_slots(next_t, end, slot_minutes, part_of_day, busy_blocks)
    ELSE {}

\* find_availability_slots on the table rows; the result as a set (the code
\* returns a list, which is only searched and listed)
find_availability_slots(rows, doctor_id, day, part_of_day, slot_minutes) ==
    LET avail == Availability(doctor_id, weekday(day))
        existing == {a \in rows : /\ a.doctor_id = doctor_id
                                  /\ a.start_at >= day * DayLen
                                  /\ a.start_at < (day + 1) * DayLen
                                  /\ a.status # "canceled"}
        busy_blocks == {<<a.start_at, a.end_at>> : a \in existing}
    IN  UNION {window_slots(day * DayLen + w.start_time, day * DayLen + w.end_time,
                            slot_minutes, part_of_day, busy_blocks) : w \in avail}

\* book_appointment, lines 117-123: the count of the conflict query
conflicts(rows, doctor_id, start_at, end_at) ==
    Cardinality({a \in rows : /\ a.doctor_id = doctor_id
                              /\ a.status # "canceled"
                              /\ a.start_at < end_at
                              /\ a.end_at > start_at})

\* models.py, lines 51-53 (uix_doctor_start): a row of the table, canceled or
\* not, has the doctor and the start
uix_doctor_start(rows, doctor_id, start_at) ==
    \E a \in rows : a.doctor_id = doctor_id /\ a.start_at = start_at

OutsideAvailability == "Requested time is outside the doctor's availability or already taken"
OverlapsExisting == "Requested time overlaps with existing appointment"
IntegrityError == "UNIQUE constraint failed: appointments.doctor_id, appointments.start_at"

Bookers == {"b1", "b2"}
NoBooking == [pc |-> "idle", doctor_id |-> 0, start_at |-> 0, end_at |-> 0, result |-> ""]
\* a booking request: the doctor (0: a name no doctor has) and the interval
BookingRequest(doctor_id, day, u, minutes) ==
    [doctor_id |-> doctor_id, start_at |-> day * DayLen + u, end_at |-> day * DayLen + u + minutes]
\* requests for doctor 1 on the Friday morning
MorningRequests == {BookingRequest(1, 0, u, n) : u \in {18, 19, 20}, n \in {1, 2}}
BookingRequests ==
    MorningRequests
    \cup {BookingRequest(1, 0, 18, 0), BookingRequest(1, 0, 28, 1), BookingRequest(1, 1, 18, 1),
          BookingRequest(2, 1, 18, 1), BookingRequest(2, 0, 18, 1), BookingRequest(0, 0, 18, 1)}

(***************************************************************************)
(* State                                                                   *)
(***************************************************************************)
VARIABLES
    SESSION_HISTORY,  \* agent.SESSION_HISTORY: session id -> list of turns
    settings,         \* what get_settings().OPENAI_API_KEY / the environment give
    pc,               \* where each request is in process_agent_request
    loc,              \* the local variables of each request
    calls,            \* the tool-backend calls made for the request's message
    completions,      \* the completion calls made for the request's message
    received,         \* number of messages received so far
    probe,            \* a function of the engine under evaluation: its input and result
    appointments,     \* the rows of the appointments table
    booking           \* where each call of book_appointment_tool is, and its result

vars == <<SESSION_HISTORY, settings, pc, loc, calls, completions, received, probe,
          appointments, booking>>

Turn(role, content) == [role |-> role, content |-> content]

Idle ==
    [session_id |-> "", inbound |-> NoText, message |-> NoText, advertised |-> FALSE,
     history |-> <<>>, llm_returned |-> FALSE, llm_response |-> NoText,
     response_text |-> NoText, booking_args |-> JNull, register_content |-> NoText,
     formatted_response |-> NoText]

\* no function is under evaluation
NoProbe == [op |-> "none"]

\* a history left by an earlier exchange
PriorHistory ==
    <<Turn("user", Words(<<"hello">>)), Turn("assistant", Phrase("Hi, how can I help?"))>>

Init ==
    /\ SESSION_HISTORY \in {[s \in Sessions |-> <<>>],
                           [s \in Sessions |-> IF s = "s1" THEN PriorHistory ELSE <<>>]}
    /\ settings \in {"attribute_error", "no_key", "key"}
    /\ pc = [r \in Req |-> "idle"]
    /\ loc = [r \in Req |-> Idle]
    /\ calls = [r \in Req |-> <<>>]
    /\ completions = [r \in Req |-> 0]
    /\ received = 0
    /\ probe = NoProbe
    /\ appointments = {}
    /\ booking = [b \in Bookers |-> NoBooking]

\* the exception a handler reports for a call with outcome out
reported(out) == IF out.raised THEN ExcText ELSE ""

\* every call issued twice
Logged_twice(r, tool_name, args, step, error) ==
    calls' = [calls EXCEPT ![r] = @ \o << [tool |-> tool_name, args |-> args, step |-> step,
                                          error |-> error],
                                         [tool |-> tool_name, args |-> args, step |-> step,
                                          error |-> error] >>]

\* session.call_tool(tool_name, args) made in step step of request r; error
\* is the exception the handler of the step puts in the response ("" when
\* the call returned, and in the steps whose handlers report nothing)
Logged(r, tool_name, args, step, error) ==
    calls' = [calls EXCEPT ![r] = Append(@, [tool |-> tool_name, args |-> args, step |-> step,
                                             error |-> error])]

(***************************************************************************)
(* chat: a request arrives                                                 *)
(***************************************************************************)
Receive(r, msgs) ==
    /\ pc[r] = "idle"
    /\ \E sid \in Sessions, m \in msgs :
          loc' = [loc EXCEPT ![r] = [Idle EXCEPT !.session_id = sid, !.inbound = m, !.message = m]]
    /\ pc' = [pc EXCEPT ![r] = "connect"]
    /\ received' = received + 1
    /\ UNCHANGED <<SESSION_HISTORY, settings, calls, completions, probe, appointments, booking>>

(***************************************************************************)
(* process_agent_request, lines 712-724: the backend session is opened and *)
(* the tools are listed; an exception there leaves the function.  Then     *)
(* the history of the session is read.                                     *)
(***************************************************************************)
Connect(r) ==
    /\ pc[r] = "connect"
    /\ \/ /\ pc' = [pc EXCEPT ![r] = "aborted"]
          /\ UNCHANGED loc
       \/ \E adv \in BOOLEAN :
            /\ loc' = [loc EXCEPT ![r].advertised = adv,
                                  ![r].history = SESSION_HISTORY[loc[r].session_id]]
            /\ pc' = [pc EXCEPT ![r] = "resolve"]
    /\ UNCHANGED <<SESSION_HISTORY, settings, calls, completions, received, probe, appointments, booking>>

(***************************************************************************)
(* resolve_relative_dates                                                  *)
(***************************************************************************)
\* a message rewritten with the current date when the resolution failed
resolved_message_on_failure(message, keyword, out) ==
    IF out.raised \/ ~Parses(out.content) \/ ~IsDict(Loads(out.content))
       \/ ~Truthy(Get(Loads(out.content), "date"))
    THEN replace_relative_date(message, Today, keyword)
    ELSE replace_relative_date(message, Get(Loads(out.content), "date").str, keyword)

\* lines 384-401: the message after the call for keyword had outcome out
resolved_message(message, keyword, out) ==
    IF out.raised \/ ~Parses(out.content) \/ ~IsDict(Loads(out.content))
       \/ ~Truthy(Get(Loads(out.content), "date"))
    THEN message
    ELSE replace_relative_date(message, Get(Loads(out.content), "date").str, keyword)

ResolveDates(r) ==
    /\ pc[r] = "resolve"
    /\ LET message == loc[r].message
           keyword == select_keyword(message)
           args == JObj([text |-> JStr(keyword)])
       IN  IF ~loc[r].advertised \/ keyword = ""
           THEN UNCHANGED <<loc, calls>>
           ELSE /\ Logged(r, "resolve_date_tool", args, "resolve", "")
                /\ \E out \in Outcomes("resolve_date_tool", args) :
                     loc' = [loc EXCEPT ![r].message = resolved_message(message, keyword, out)]
    /\ pc' = [pc EXCEPT ![r] = "llm"]
    /\ UNCHANGED <<SESSION_HISTORY, settings, completions, received, probe, appointments, booking>>

(***************************************************************************)
(* call_llm_with_tools up to the decision of process_llm_response          *)
(***************************************************************************)
Apology == "Sorry, LLM service is not configured."

\* tool_plan and tool_plan.get("tool_name")
has_tool_name(tool_plan) == Truthy(tool_plan) /\ Truthy(Get(tool_plan, "tool_name"))

\* process_llm_response without the forced tool usage
dispatch_of_free_text(llm_response, original_message) ==
    IF has_tool_name(extract_tool_plan(llm_response)) THEN "plan" ELSE "chain"

\* process_llm_response forcing a tool only when no JSON object was recovered
dispatch_of_unparsed_only(llm_response, original_message) ==
    LET tool_plan == extract_tool_plan(llm_response) IN
    IF is_data_query(original_message) /\ ~Truthy(tool_plan) THEN "force"
    ELSE IF has_tool_name(tool_plan) THEN "plan"
    ELSE "chain"

\* the branch process_llm_response takes
dispatch_of(llm_response, original_message) ==
    LET tool_plan == extract_tool_plan(llm_response) IN
    IF is_data_query(original_message) /\ ~has_tool_name(tool_plan) THEN "force"
    ELSE IF has_tool_name(tool_plan) THEN "plan"
    ELSE "chain"

\* lines 431-435: settings.OPENAI_API_KEY raises when the settings class has
\* no such field (as app/config.py); without a key the apology is returned
\* the credential check skipped when no key is configured
api_key_outcome_unchecked(s) ==
    IF s = "attribute_error" THEN "raise" ELSE "call"

api_key_outcome(s) ==
    IF s = "attribute_error" THEN "raise"
    ELSE IF s = "no_key" THEN "apology"
    ELSE "call"

CallLLM(r, comps) ==
    /\ pc[r] = "llm"
    /\ \/ /\ api_key_outcome(settings) = "raise"
          /\ pc' = [pc EXCEPT ![r] = "aborted"]
          /\ UNCHANGED <<loc, completions>>
       \/ /\ api_key_outcome(settings) = "apology"
          /\ loc' = [loc EXCEPT ![r].response_text = Phrase(Apology)]
          /\ pc' = [pc EXCEPT ![r] = "chain"]
          /\ UNCHANGED completions
       \/ /\ api_key_outcome(settings) = "call"
          /\ completions' = [completions EXCEPT ![r] = @ + 1]
          /\ \/ /\ loc' = [loc EXCEPT ![r].response_text =
                             Phrase("Sorry, I encountered an error: " \o ExcText)]
                /\ pc' = [pc EXCEPT ![r] = "chain"]
             \/ \E c \in comps :
                  LET branch == dispatch_of(c, loc[r].message) IN
                  /\ loc' = [loc EXCEPT ![r].llm_returned = TRUE,
                                        ![r].llm_response = c,
                                        ![r].response_text = IF branch = "chain" THEN c ELSE NoText]
                  /\ pc' = [pc EXCEPT ![r] = branch]
    /\ UNCHANGED <<SESSION_HISTORY, settings, calls, received, probe, appointments, booking>>

(***************************************************************************)
(* force_tool_usage                                                        *)
(***************************************************************************)
\* the text of a failed forced call worded as that of a failed planned call
forced_error_text_as_planned(tool_name, e) ==
    Phrase("Error executing tool " \o tool_name \o ": " \o e)

\* line 625: the text returned when the forced call raises e
forced_error_text(tool_name, e) == Phrase("Error calling " \o tool_name \o ": " \o e)

ForceToolUsage(r) ==
    /\ pc[r] = "force"
    /\ LET fc == forced_call(loc[r].message) IN
       /\ \E out \in Outcomes(fc.tool_name, fc.tool_args) :
            Logged(r, fc.tool_name, fc.tool_args, "forced", reported(out)) /\
            loc' = [loc EXCEPT ![r].response_text =
                      IF out.raised
                      THEN forced_error_text(fc.tool_name, ExcText)
                      ELSE format_tool_response(fc.tool_name, out.content)]
    /\ pc' = [pc EXCEPT ![r] = "chain"]
    /\ UNCHANGED <<SESSION_HISTORY, settings, completions, received, probe, appointments, booking>>

(***************************************************************************)
(* execute_tool_plan                                                       *)
(***************************************************************************)
\* a registration attempted after any booking, whatever it returned
needs_registration_any_booking(tool_name, formatted_response) ==
    tool_name = "book_appointment_tool"

\* line 641: the planned call was a booking that found no patient
needs_registration(tool_name, formatted_response) ==
    tool_name = "book_appointment_tool" /\ HasPatientNotFound(formatted_response)

ExecuteToolPlan(r) ==
    /\ pc[r] = "plan"
    /\ LET plan == extract_tool_plan(loc[r].llm_response)
           tool_name == plan.obj["tool_name"].str
           args == normalize_tool_arguments(tool_name, GetOr(plan, "args", JObj(EmptyMap)))
       IN
       /\ \E out \in Outcomes(tool_name, args) :
            Logged(r, tool_name, args, "planned", reported(out)) /\
            IF out.raised
            THEN /\ loc' = [loc EXCEPT ![r].response_text =
                              Phrase("Error executing tool " \o tool_name \o ": " \o ExcText)]
                 /\ pc' = [pc EXCEPT ![r] = "chain"]
            ELSE LET formatted_response == format_tool_response(tool_name, out.content) IN
                 IF needs_registration(tool_name, formatted_response)
                 THEN /\ loc' = [loc EXCEPT ![r].booking_args = args,
                                           ![r].formatted_response = formatted_response]
                      /\ pc' = [pc EXCEPT ![r] = "register"]
                 ELSE /\ loc' = [loc EXCEPT ![r].response_text = formatted_response,
                                           ![r].formatted_response = formatted_response]
                      /\ pc' = [pc EXCEPT ![r] = "chain"]
    /\ UNCHANGED <<SESSION_HISTORY, settings, completions, received, probe, appointments, booking>>

(***************************************************************************)
(* handle_patient_registration_and_booking, up to the registration result  *)
(***************************************************************************)
registration_args_of(booking_args) ==
    LET data == GetOr(booking_args, "data", JObj(EmptyMap))
        patient_email == GetOr(data, "patient_email", JStr(""))
    IN  JObj([data |-> JObj([name |-> JStr(patient_name_of(patient_email.str)),
                             email |-> patient_email,
                             primary_condition |->
                                 GetOr(data, "description", JStr("general consultation"))])])

RegisterPatient(r) ==
    /\ pc[r] = "register"
    /\ LET booking_args == loc[r].booking_args
           data == GetOr(booking_args, "data", JObj(EmptyMap))
           patient_email == GetOr(data, "patient_email", JStr(""))
       IN
       IF ~Truthy(patient_email)
       THEN /\ loc' = [loc EXCEPT ![r].response_text =
                         Phrase("Unable to register patient: email address is required.")]
            /\ pc' = [pc EXCEPT ![r] = "chain"]
            /\ UNCHANGED calls
       ELSE LET registration_args == registration_args_of(booking_args) IN
            /\ \E out \in Outcomes("register_patient_tool", registration_args) :
                 Logged(r, "register_patient_tool", registration_args, "register", reported(out)) /\
                 IF out.raised
                 THEN /\ loc' = [loc EXCEPT ![r].response_text =
                            Phrase("Error during patient registration and booking: " \o ExcText)]
                      /\ pc' = [pc EXCEPT ![r] = "chain"]
                 ELSE IF registration_success(out.content)
                 THEN /\ pc' = [pc EXCEPT ![r] = "retry"]
                      /\ loc' = [loc EXCEPT ![r].register_content = out.content]
                 ELSE /\ loc' = [loc EXCEPT ![r].register_content = out.content,
                                       ![r].response_text =
                            <<W("Unable to register new patient:")>> \o out.content]
                      /\ pc' = [pc EXCEPT ![r] = "chain"]
    /\ UNCHANGED <<SESSION_HISTORY, settings, completions, received, probe, appointments, booking>>

(***************************************************************************)
(* handle_patient_registration_and_booking: the booking is retried         *)
(***************************************************************************)
RetryBooking(r) ==
    /\ pc[r] = "retry"
    /\ LET booking_args == loc[r].booking_args
           patient_name == registration_args_of(booking_args).obj["data"].obj["name"].str
       IN
       /\ \E out \in Outcomes("book_appointment_tool", booking_args) :
            Logged(r, "book_appointment_tool", booking_args, "retry", reported(out)) /\
            loc' = [loc EXCEPT ![r].response_text =
                      IF out.raised
                      THEN Phrase("Error during patient registration and booking: " \o ExcText)
                      ELSE <<W("Welcome! I've registered you as a new patient ("
                                \o patient_name \o ") and")>>
                           \o LowerText(format_tool_response("book_appointment_tool", out.content))]
    /\ pc' = [pc EXCEPT ![r] = "chain"]
    /\ UNCHANGED <<SESSION_HISTORY, settings, completions, received, probe, appointments, booking>>

(***************************************************************************)
(* process_agent_request, lines 735-739: handle_date_resolution_chaining   *)
(***************************************************************************)
DateChaining(r) ==
    /\ pc[r] = "chain"
    /\ LET response_text == loc[r].response_text
           doctor_name == doctor_of(loc[r].message)
           time_period == period_of(loc[r].message)
           args == JObj([query |-> JObj([
                       doctor_name |-> JStr(doctor_name),
                       date |-> JStr(IF Len(response_text) > 0 THEN last_token(response_text) ELSE ""),
                       part_of_day |-> IF time_period = "" THEN JNull ELSE JStr(time_period)])])
       IN  IF starts_with_sentinel(response_text) /\ doctor_name # ""
           THEN /\ Logged(r, "check_doctor_availability", args, "chain", "")
                /\ \E out \in Outcomes("check_doctor_availability", args) :
                     loc' = [loc EXCEPT ![r].response_text =
                               IF out.raised THEN response_text
                               ELSE format_availability_response(out.content)]
           ELSE UNCHANGED <<loc, calls>>
    /\ pc' = [pc EXCEPT ![r] = "fallback"]
    /\ UNCHANGED <<SESSION_HISTORY, settings, completions, received, probe, appointments, booking>>

(***************************************************************************)
(* process_agent_request, lines 741-753: execute_fallback_tool, then the   *)
(* history of the session is overwritten and the text returned             *)
(***************************************************************************)
\* the tool names in the model that end with "_tool"
ToolSuffixed ==
    {"list_appointments_tool", "book_appointment_tool", "register_patient_tool",
     "appointment_stats_tool", "patients_by_reason_tool", "resolve_date_tool", "sql_read_tool",
     "cancel_appointments_by_date_tool"}
\* only the actions "tool" and "call_tool" taken for a request to call a tool
is_tool_action_by_name(action) == action \in {"tool", "call_tool"}
\* line 778
is_tool_action(action) == action \in {"tool", "call_tool"} \/ action \in ToolSuffixed

\* the history entry without the turns read at the start
updated_history_dropping(history, message, response_text) ==
    <<Turn("user", message), Turn("assistant", response_text)>>

\* the history entry written at the end of a request
updated_history(history, message, response_text) ==
    history \o <<Turn("user", message), Turn("assistant", response_text)>>

\* one entry for all the sessions
history_key_shared(session_id) == "s1"

\* the key of SESSION_HISTORY under which a session's history is kept
history_key(session_id) == session_id

\* the two turns appended to the entry as it is at the time of the write
StoreAppending(r, response_text) ==
    /\ loc' = [loc EXCEPT ![r].response_text = response_text]
    /\ SESSION_HISTORY' = [SESSION_HISTORY EXCEPT ![history_key(loc[r].session_id)] =
                              updated_history(SESSION_HISTORY[history_key(loc[r].session_id)],
                                              loc[r].message, response_text)]

Store(r, response_text) ==
    /\ loc' = [loc EXCEPT ![r].response_text = response_text]
    /\ SESSION_HISTORY' = [SESSION_HISTORY EXCEPT ![history_key(loc[r].session_id)] =
                              updated_history(loc[r].history, loc[r].message, response_text)]

Fallback(r) ==
    /\ pc[r] = "fallback"
    /\ LET fallback_plan == extract_tool_plan(loc[r].response_text) IN
       IF ~Truthy(fallback_plan)
       THEN Store(r, loc[r].response_text) /\ UNCHANGED calls
       ELSE LET action == Lower(Str(GetOr(fallback_plan, "action", JStr("")))) IN
            IF ~is_tool_action(action)
            THEN Store(r, Phrase("Unable to execute the requested tool.")) /\ UNCHANGED calls
            ELSE LET tool_name == Or(Get(fallback_plan, "tool_name"), Get(fallback_plan, "action")).str
                     args == normalize_tool_arguments(tool_name,
                                                      GetOr(fallback_plan, "args", JObj(EmptyMap)))
                 IN  /\ \E out \in Outcomes(tool_name, args) :
                          Logged(r, tool_name, args, "fallback", reported(out)) /\
                          Store(r, IF out.raised
                                   THEN Phrase("Error executing fallback tool " \o tool_name
                                               \o ": " \o ExcText)
                                   ELSE format_tool_response(tool_name, out.content))
    /\ pc' = [pc EXCEPT ![r] = "done"]
    /\ UNCHANGED <<settings, completions, received, probe, appointments, booking>>

(***************************************************************************)
(* chat: the response (or the error of an aborted request) is sent         *)
(***************************************************************************)
Respond(r) ==
    /\ pc[r] \in {"done", "aborted"}
    /\ pc' = [pc EXCEPT ![r] = "idle"]
    /\ loc' = [loc EXCEPT ![r] = Idle]
    /\ calls' = [calls EXCEPT ![r] = <<>>]
    /\ completions' = [completions EXCEPT ![r] = 0]
    /\ UNCHANGED <<SESSION_HISTORY, settings, received, probe, appointments, booking>>

(***************************************************************************)
(* Requests served one at a time (by the first request slot), with every   *)
(* message and completion of the model                                     *)
(***************************************************************************)
ReceiveNext(r) ==
    /\ received < MaxMessages
    /\ r = FirstSlot
    /\ \A q \in Req \ {r} : pc[q] = "idle"
    /\ Receive(r, Messages)

Complete(r) == CallLLM(r, Completions)

Next ==
    \E r \in Req :
        \/ ReceiveNext(r)
        \/ Connect(r)
        \/ ResolveDates(r)
        \/ Complete(r)
        \/ ForceToolUsage(r)
        \/ ExecuteToolPlan(r)
        \/ RegisterPatient(r)
        \/ RetryBooking(r)
        \/ DateChaining(r)
        \/ Fallback(r)
        \/ Respond(r)

Spec == Init /\ [][Next]_vars

(***************************************************************************)
(* Two requests that run concurrently, interleaved at their awaits; each   *)
(* request slot serves one message.                                        *)
(***************************************************************************)
RaceMessages == {Words(<<"list", "appointments", "tomorrow">>), Words(<<"hello">>)}
RaceCompletions == {Phrase("You have 3 appointments with John Doe."), Dump(BookingPlan)}

ReceiveConcurrent(r) == Receive(r, RaceMessages)
CompleteConcurrent(r) == CallLLM(r, RaceCompletions)

NextRace ==
    \E r \in Req :
        \/ ReceiveConcurrent(r)
        \/ Connect(r)
        \/ ResolveDates(r)
        \/ CompleteConcurrent(r)
        \/ ForceToolUsage(r)
        \/ ExecuteToolPlan(r)
        \/ RegisterPatient(r)
        \/ RetryBooking(r)
        \/ DateChaining(r)
        \/ Fallback(r)

SpecRace == Init /\ [][NextRace]_vars

TypeOK ==
    /\ \A r \in Req : pc[r] \in {"idle", "connect", "resolve", "llm", "force", "plan",
                                 "register", "retry", "chain", "fallback", "done", "aborted"}
    /\ received \in 0..(MaxMessages + Cardinality(Req))

(***************************************************************************)
(* Observations used by the properties                                     *)
(***************************************************************************)
\* the calls of request r made in step step
CallsIn(r, step) == {i \in 1..Len(calls[r]) : calls[r][i].step = step}
\* the calls of request r to tool tool_name
CallsTo(r, tool_name) == {i \in 1..Len(calls[r]) : calls[r][i].tool = tool_name}
\* the model returned a completion that carries no tool plan
NoPlan(r) == loc[r].llm_returned /\ ~has_tool_name(extract_tool_plan(loc[r].llm_response))
\* the texts a forced call can produce
ForcedTexts(fc) ==
    {Phrase("Error calling " \o fc.tool_name \o ": " \o ExcText)}
    \cup {format_tool_response(fc.tool_name, c) : c \in ToolContents(fc.tool_name, fc.tool_args)}

C3_UserTurnIsInbound ==
    \A r \in Req :
        pc[r] = "done" =>
            LET h == SESSION_HISTORY[loc[r].session_id] IN
            h[Len(h) - 1] = Turn("user", loc[r].inbound)

(***************************************************************************)
(* C4.  With requests served one after another, a step changes the         *)
(* history of a session only when a request for that session ends, and     *)
(* then it appends exactly two turns to it: a user turn and an assistant   *)
(* turn holding the text returned; and each request that ends does so.     *)
(***************************************************************************)
ExtendsByTwo(h, h2, text) ==
    /\ Len(h2) = Len(h) + 2
    /\ SubSeq(h2, 1, Len(h)) = h
    /\ h2[Len(h) + 1].role = "user"
    /\ h2[Len(h) + 2] = Turn("assistant", text)

C4_TwoTurnsPerMessage ==
    [][ /\ \A s \in Sessions :
              SESSION_HISTORY'[s] # SESSION_HISTORY[s] =>
                  \E r \in Req : /\ pc[r] # "done" /\ pc'[r] = "done"
                                 /\ loc[r].session_id = s
        /\ \A r \in Req :
              (pc[r] # "done" /\ pc'[r] = "done") =>
                  /\ ExtendsByTwo(SESSION_HISTORY[loc[r].session_id],
                                  SESSION_HISTORY'[loc[r].session_id],
                                  loc'[r].response_text)
                  /\ \A s \in Sessions \ {loc[r].session_id} :
                        SESSION_HISTORY'[s] = SESSION_HISTORY[s] ]_vars

C4_Witness ==
    \E r \in Req :
        /\ pc[r] = "done"
        /\ Len(calls[r]) >= 3
        /\ Len(SESSION_HISTORY[loc[r].session_id]) = 4
        /\ SubSeq(SESSION_HISTORY[loc[r].session_id], 1, 2) = PriorHistory

(***************************************************************************)
(* C5.  A request overwrites the history entry of its session with the     *)
(* history it read at its start plus its own two turns, whatever the       *)
(* entry holds by then: of two concurrent requests for one session that    *)
(* read the same history, the turns of the one that wrote first are lost.  *)
(***************************************************************************)
C5_LastWriteWins ==
    [][ \A r \in Req :
            (pc[r] # "done" /\ pc'[r] = "done") =>
                SESSION_HISTORY'[loc[r].session_id] =
                    loc[r].history \o <<Turn("user", loc[r].message),
                                        Turn("assistant", loc'[r].response_text)>> ]_vars

C5_Witness ==
    \E r \in Req, q \in Req :
        /\ r # q /\ pc[r] = "done" /\ pc[q] = "done"
        /\ loc[r].session_id = loc[q].session_id
        /\ loc[r].history = loc[q].history
        /\ calls[r] # <<>> /\ calls[q] # <<>>
        /\ loc[r].response_text # loc[q].response_text
        /\ Len(SESSION_HISTORY[loc[r].session_id]) = Len(loc[r].history) + 2
        /\ SESSION_HISTORY[loc[r].session_id][Len(loc[r].history) + 2]
              = Turn("assistant", loc[q].response_text)

(***************************************************************************)
(* C6.  When a booking call made from a tool plan of the model came back   *)
(* with "Patient not found" and the booking arguments carry a non-empty    *)
(* patient email, the registration tool has been called exactly once when  *)
(* the request is done, and the booking tool has been called again exactly *)
(* once if the registration result contains a success keyword and not at   *)
(* all otherwise; these are the only calls that follow the booking.        *)
(***************************************************************************)
\* the planned booking of request r came back with "Patient not found"
PatientMissing(r) == IsDict(loc[r].booking_args)
EmailOf(r) ==
    GetOr(GetOr(loc[r].booking_args, "data", JObj(EmptyMap)), "patient_email", JStr(""))

C6_RegisterOnceRetryOnce ==
    \A r \in Req :
        (pc[r] = "done" /\ PatientMissing(r) /\ Truthy(EmailOf(r))) =>
            LET retries == IF TextStrings(loc[r].register_content) \cap SuccessStrings # {}
                           THEN 1 ELSE 0 IN
            /\ Cardinality(CallsTo(r, "register_patient_tool")) = 1
            /\ Cardinality(CallsIn(r, "register")) = 1
            /\ Cardinality(CallsIn(r, "retry")) = retries
            /\ Cardinality(CallsTo(r, "book_appointment_tool")) = 1 + retries
            /\ \A i \in 1..Len(calls[r]) :
                  calls[r][i].step \in {"resolve", "planned", "register", "retry"}

\* the retried booking came back with "Patient not found" again
C6_Witness ==
    \E r \in Req :
        /\ pc[r] = "done" /\ PatientMissing(r) /\ Truthy(EmailOf(r))
        /\ Cardinality(CallsIn(r, "retry")) = 1
        /\ loc[r].response_text[Len(loc[r].response_text)] = W(Lower(PatientNotFound))

(***************************************************************************)
(* C7.  In the booking-retry step, when the registration result contains   *)
(* no success keyword the booking is not retried and the text returned     *)
(* for the message is the registration failure text; when it contains      *)
(* one, the text returned is the welcome-plus-booking message.             *)
(***************************************************************************)
C7_RegistrationFailureText ==
    \A r \in Req :
        (pc[r] = "done" /\ loc[r].register_content # NoText) =>
            IF TextStrings(loc[r].register_content) \cap SuccessStrings # {}
            THEN loc[r].response_text[1].s \in
                    {"Welcome! I've registered you as a new patient (Jane Doe) and",
                     "Error during patient registration and booking: " \o ExcText}
            ELSE /\ CallsIn(r, "retry") = {}
                 /\ loc[r].response_text =
                        <<W("Unable to register new patient:")>> \o loc[r].register_content

(***************************************************************************)
(* C8.  Every failure while a message is processed ends in a text          *)
(* response for the request, and the history is extended with it: no       *)
(* request is left by an exception.                                        *)
(***************************************************************************)
C8_EveryFailureIsText ==
    \A r \in Req : pc[r] # "aborted"

C10_ExactlyOneCompletion ==
    \A r \in Req : pc[r] = "done" => completions[r] = 1

(***************************************************************************)
(* C10 (amended).  At most one completion call is issued per message,      *)
(* whatever path it takes; a message that is answered has had exactly one  *)
(* when a model credential is configured and none when it is not.          *)
(***************************************************************************)
C10_AtMostOneCompletion ==
    \A r \in Req :
        /\ completions[r] <= 1
        /\ pc[r] = "done" => completions[r] = (IF settings = "key" THEN 1 ELSE 0)

C10_Witness ==
    \E r \in Req :
        /\ pc[r] = "done" /\ completions[r] = 1
        /\ CallsIn(r, "resolve") # {} /\ CallsIn(r, "retry") # {}

(***************************************************************************)
(* Evaluation of one function of the engine on an input drawn from a       *)
(* bounded set: the requests are at rest, probe holds the input and the    *)
(* results obtained so far.                                                *)
(***************************************************************************)
AtRest ==
    /\ SESSION_HISTORY = [s \in Sessions |-> <<>>]
    /\ settings = "key"
    /\ pc = [r \in Req |-> "idle"]
    /\ loc = [r \in Req |-> Idle]
    /\ calls = [r \in Req |-> <<>>]
    /\ completions = [r \in Req |-> 0]
    /\ received = 0
    /\ appointments = {}
    /\ booking = [b \in Bookers |-> NoBooking]
StayAtRest ==
    UNCHANGED <<SESSION_HISTORY, settings, pc, loc, calls, completions, received,
                appointments, booking>>

(***************************************************************************)
(* normalize_tool_arguments applied to a raw argument value, and again to  *)
(* its own result                                                          *)
(***************************************************************************)
\* largest number of keys of a raw argument map
MaxKeys == 2
NormTools ==
    {"resolve_date_tool", "sql_read_tool", "list_doctors_tool"} \cup QueryTools \cup DataTools
NormKeys ==
    {"text", "date", "for_date", "query", "condition_like", "reason_like", "data", "sql", "params"}
NormValues == {JStr("fever"), JStr(""), JStr(Today), JNull, JObj([date |-> JStr(Today)])}
RawMaps ==
    {JObj(f) : f \in UNION {[K -> NormValues] :
                               K \in {K \in SUBSET NormKeys : Cardinality(K) <= MaxKeys}}}
RawNonMaps == {JStr("next monday"), JStr(""), JNull, JTrue, JNum(3), JArr(<<>>)}

InitNormalize ==
    /\ AtRest
    /\ \E t \in NormTools, a \in RawMaps \cup RawNonMaps :
          probe = [op |-> "normalize", tool_name |-> t, args |-> a,
                   once |-> JNull, twice |-> JNull, done |-> 0]

NormalizeOnce ==
    /\ probe.op = "normalize" /\ probe.done = 0
    /\ probe' = [probe EXCEPT !.once = normalize_tool_arguments(probe.tool_name, probe.args),
                              !.done = 1]
    /\ StayAtRest

NormalizeAgain ==
    /\ probe.op = "normalize" /\ probe.done = 1
    /\ probe' = [probe EXCEPT !.twice = normalize_tool_arguments(probe.tool_name, probe.once),
                              !.done = 2]
    /\ StayAtRest

NextNormalize == NormalizeOnce \/ NormalizeAgain

SpecNormalize == InitNormalize /\ [][NextNormalize]_vars

(***************************************************************************)
(* C11.  Argument normalization is idempotent: for every tool name and     *)
(* every raw argument value, map or not, normalizing the normalized        *)
(* arguments again for the same tool returns them unchanged.               *)
(***************************************************************************)
C11_Idempotent ==
    (probe.op = "normalize" /\ probe.done = 2) => probe.twice = probe.once

C11_Witness ==
    /\ probe.op = "normalize" /\ probe.done = 2
    /\ probe.tool_name = "book_appointment_tool"
    /\ IsDict(probe.args) /\ Has(probe.args, "data") /\ ~IsDict(probe.args.obj["data"])
    /\ probe.once = JObj([data |-> probe.args])
    /\ probe.twice = probe.once

(***************************************************************************)
(* extract_tool_plan applied to the serialization of a JSON object with    *)
(* prose before and after it                                               *)
(***************************************************************************)
\* largest number of words before, and after, the object
MaxAffix == 2
AffixWords == {"Sure:", "done.", "{oops"}
Affixes == UNION {[1..n -> AffixWords] : n \in 0..MaxAffix}
\* n characters of text
RECURSIVE Filler(_)
Filler(n) ==
    IF n = 0 THEN ""
    ELSE IF n % 2 = 0 THEN LET half == Filler(n \div 2) IN half \o half
    ELSE "x" \o Filler(n - 1)
\* a final answer whose serialization has total characters
LongAnswer(total) ==
    JObj([action |-> JStr("final"),
          text |-> JStr(Filler(total - SerializedLen(JObj([action |-> JStr("final"),
                                                           text |-> JStr("")]))))])
\* a final answer whose text holds a closing brace
BracedAnswer == JObj([action |-> JStr("final"), text |-> JStr("a}")])
PlanObjects ==
    {BookingPlan, BookingPlanNoEmail, ResolvePlan, ActionOnlyPlan, FinalAnswer, JObj(EmptyMap),
     BracedAnswer, LongAnswer(ScanLimit + 1), LongAnswer(ScanLimit + 2),
     LongAnswer(ScanLimit + 3)}

\* prefix + json.dumps(o) + suffix
Embedded(prefix, o, suffix) == Words(prefix) \o Dump(o) \o Words(suffix)

InitExtract ==
    /\ AtRest
    /\ \E o \in PlanObjects \cup {JNull}, prefix \in Affixes, suffix \in Affixes :
          probe = [op |-> "extract", o |-> o, prefix |-> prefix, suffix |-> suffix,
                   plan |-> JNull, done |-> 0]

Extract ==
    /\ probe.op = "extract" /\ probe.done = 0
    /\ probe' = [probe EXCEPT
                    !.plan = extract_tool_plan(Embedded(probe.prefix, probe.o, probe.suffix)),
                    !.done = 1]
    /\ StayAtRest

NextExtract == Extract

SpecExtract == InitExtract /\ [][NextExtract]_vars

(***************************************************************************)
(* C12.  The Plan Extractor returns the embedded object: for every JSON    *)
(* object o and every text before and after its serialization,             *)
(* extract_tool_plan returns o.                                            *)
(***************************************************************************)
C12_RoundTrip ==
    (probe.op = "extract" /\ probe.done = 1) => probe.plan = probe.o

(***************************************************************************)
(* One request whose completion carries no tool plan: the messages are     *)
(* listings and Slack summaries with and without a date, the completions   *)
(* are prose, nothing, or a JSON object without a tool name.               *)
(***************************************************************************)
PolicyMessages ==
    { Words(<<"list", "appointments", "tomorrow">>),
      Words(<<"show", "appointments", "tomorrow">>),
      Words(<<"tomorrow", "list", "appointments">>),
      Words(<<"send", "slack", "summary", "today">>),
      Words(<<"send", "slack", "summary", "tomorrow">>),
      Words(<<"send", "slack", "summary", "for", "2025-08-18">>),
      Words(<<"send", "slack", "summary">>),
      Words(<<"slack", "summary", "today's">>),
      Words(<<"summary", "slack", "tomorrow">>),
      Words(<<"list", "appointments", "send", "slack", "today">>),
      Words(<<"hello">>) }
PolicyCompletions ==
    {NoText, Phrase("You have 3 appointments with John Doe."), Dump(FinalAnswer)}

ReceivePolicy(r) == r = FirstSlot /\ Receive(r, PolicyMessages)
CompletePolicy(r) == CallLLM(r, PolicyCompletions)

NextPolicy ==
    \E r \in Req :
        \/ ReceivePolicy(r)
        \/ Connect(r)
        \/ ResolveDates(r)
        \/ CompletePolicy(r)
        \/ ForceToolUsage(r)
        \/ DateChaining(r)
        \/ Fallback(r)

SpecPolicy == Init /\ [][NextPolicy]_vars

\* the message has a word that is, or is the possessive of, word
Says(m, word) == \E i \in 1..Len(m) : m[i].s \in {word, word \o "'s"}
\* the ISO dates written in the message
WrittenDates(m) == {m[i].s : i \in {k \in 1..Len(m) : m[k].s \in IsoDates}}
\* the message gives no date, or gives one date in one way
OneDate(m) ==
    /\ Cardinality(WrittenDates(m)) + (IF Says(m, "today") THEN 1 ELSE 0)
          + (IF Says(m, "tomorrow") THEN 1 ELSE 0) <= 1
    /\ select_keyword(m) \in {"", "today", "tomorrow"}
    /\ is_tomorrow_variant(m) => Says(m, "tomorrow")
\* the date the message expresses
ExpressedDate(m) ==
    IF WrittenDates(m) # {} THEN CHOOSE d \in WrittenDates(m) : TRUE
    ELSE IF Says(m, "tomorrow") THEN Tomorrow
    ELSE Today

CountQuery(m) == Search(m, <<{"how many"}, {"appointment"}>>)
ListQuery(m) == Search(m, <<{"list", "show"}, {"appointment"}>>)
AvailabilityQuery(m) == Search(m, <<{"available"}, {"slot"}>>)
SlackSummary(m) ==
    \/ Search(m, <<{"send"}, {"slack"}>>)
    \/ Search(m, <<{"slack"}, {"summary"}>>)
    \/ Search(m, <<{"summary"}, {"slack"}>>)

MaxItems == 11
ListTools == {"check_doctor_availability", "list_appointments_tool", "patients_by_reason_tool"}
\* which of two kinds of item stands at position i
ItemKinds == {"first", "second", "alternating"}
KindAt(kind, i) == IF kind = "alternating" THEN (IF i % 2 = 1 THEN "first" ELSE "second") ELSE kind

RowWithoutReason == Without(AppointmentRow, "description")
ItemOf(tool_name, kind, i) ==
    IF tool_name = "check_doctor_availability"
    THEN (IF KindAt(kind, i) = "first" THEN JStr(SlotA) ELSE JStr(SlotB))
    ELSE (IF KindAt(kind, i) = "first" THEN AppointmentRow ELSE RowWithoutReason)
ResultOf(tool_name, kind, n) ==
    LET items == JArr([i \in 1..n |-> ItemOf(tool_name, kind, i)]) IN
    IF tool_name = "check_doctor_availability"
    THEN Dump(JObj([doctor_id |-> JNum(1), doctor_name |-> JStr("Dr. Ahuja"),
                    available_slots |-> items]))
    ELSE IF tool_name = "list_appointments_tool" THEN Dump(JObj([appointments |-> items]))
    ELSE Dump(JObj([patients |-> items]))

InitFormat ==
    /\ AtRest
    /\ \E t \in ListTools, kind \in ItemKinds, n \in 0..MaxItems :
          probe = [op |-> "format", tool_name |-> t, kind |-> kind, n |-> n,
                   text |-> NoText, done |-> 0]

Format ==
    /\ probe.op = "format" /\ probe.done = 0
    /\ probe' = [probe EXCEPT
                    !.text = format_tool_response(probe.tool_name,
                                                  ResultOf(probe.tool_name, probe.kind, probe.n)),
                    !.done = 1]
    /\ StayAtRest

NextFormat == Format

SpecFormat == InitFormat /\ [][NextFormat]_vars

(***************************************************************************)
(* C15.  A list formatter shows the first min(n, L) items of a well-formed *)
(* result with n items, one line each, where L is 6 for availability slots *)
(* and 10 for appointments and for patients by reason; an "and n - L more" *)
(* line follows the item lines if and only if n > L; for n = 0 the text is *)
(* the fixed message of the empty result.                                  *)
(***************************************************************************)
LimitOf(tool_name) == IF tool_name = "check_doctor_availability" THEN 6 ELSE 10
EmptyMessage(tool_name) ==
    IF tool_name = "check_doctor_availability"
    THEN "No available slots found for Dr. Ahuja in the next 3 weeks."
    ELSE IF tool_name = "list_appointments_tool" THEN "No appointments found."
    ELSE "No matching patients found."
\* the line of an item
ItemText(tool_name, item) ==
    IF tool_name = "check_doctor_availability" THEN SlotLine(item)
    ELSE IF tool_name = "list_appointments_tool" THEN AppointmentLine(item)
    ELSE PatientLine(item)
ItemTexts ==
    {ItemText(t, ItemOf(t, k, 1)) : t \in ListTools, k \in {"first", "second"}}
MoreTexts == {"...and " \o NumStr(k) \o " more" : k \in 1..(MaxItems + 1)}
ItemLines(text) == {i \in 1..Len(text) : text[i].s \in ItemTexts}
MoreLines(text) == {i \in 1..Len(text) : text[i].s \in MoreTexts}

C15_TruncatesAtLimit ==
    (probe.op = "format" /\ probe.done = 1) =>
        LET text == probe.text
            n == probe.n
            L == LimitOf(probe.tool_name)
            shown == IF n < L THEN n ELSE L
        IN  IF n = 0 THEN text = Phrase(EmptyMessage(probe.tool_name))
            ELSE /\ ItemLines(text) = 2..(shown + 1)
                 /\ \A i \in 1..shown :
                       text[i + 1].s = ItemText(probe.tool_name,
                                                ItemOf(probe.tool_name, probe.kind, i))
                 /\ MoreLines(text) = IF n > L THEN {shown + 2} ELSE {}
                 /\ n > L => text[shown + 2].s = "...and " \o NumStr(n - L) \o " more"

\* 8 slots: 6 lines and "and 2 more"
C15_Witness ==
    /\ probe.op = "format" /\ probe.done = 1
    /\ probe.tool_name = "check_doctor_availability" /\ probe.n = 8
    /\ Len(probe.text) = 9
    /\ probe.text[8].s = "...and 2 more"

(***************************************************************************)
(* The registration arguments built for a booking whose patient email has  *)
(* a local part drawn character by character                               *)
(***************************************************************************)
\* the booking description: "" when the booking has none
Descriptions == {"", "fever"}
BookingFor(name_part, description) ==
    LET data == JObj([doctor_name |-> JStr("Dr. Ahuja"),
                      patient_email |-> JStr(EmailOfPart(name_part)),
                      start_at |-> JStr("2025-09-01T09:00"), end_at |-> JStr("2025-09-01T09:30")])
    IN  JObj([data |-> IF description = "" THEN data
                       ELSE With(data, "description", JStr(description))])

InitName ==
    /\ AtRest
    /\ \E name_part \in NameParts, description \in Descriptions :
          probe = [op |-> "name", name_part |-> name_part, description |-> description,
                   registration_args |-> JNull, done |-> 0]

DeriveName ==
    /\ probe.op = "name" /\ probe.done = 0
    /\ probe' = [probe EXCEPT
                    !.registration_args =
                        registration_args_of(BookingFor(probe.name_part, probe.description)),
                    !.done = 1]
    /\ StayAtRest

NextName == DeriveName

SpecName == InitName /\ [][NextName]_vars

(***************************************************************************)
(* C16.  The display name of an auto-registration is read off the local    *)
(* part of the patient email from left to right: a letter is kept, upper   *)
(* case when it starts a word and lower case otherwise; ".", "_" and "-"   *)
(* end the word and are written as one space between two words; a digit or *)
(* any other character is dropped and ends no word.  When no letter is     *)
(* left the name is "User " followed by the local part.  The registration  *)
(* call carries that name, the email, and the description of the booking   *)
(* as primary condition.                                                   *)
(***************************************************************************)
\* the name read off cs from position i on; started: a letter was written,
\* fresh: the next letter starts a word
RECURSIVE ReadName(_, _, _, _)
ReadName(cs, i, started, fresh) ==
    IF i > Len(cs) THEN ""
    ELSE IF cs[i] \in Separators THEN ReadName(cs, i + 1, started, TRUE)
    ELSE IF IsLetter(cs[i])
         THEN (IF started /\ fresh THEN " " ELSE "")
              \o (IF fresh THEN UpperOf(cs[i]) ELSE LowerOf(cs[i]))
              \o ReadName(cs, i + 1, TRUE, FALSE)
    ELSE ReadName(cs, i + 1, started, fresh)
ExpectedName(cs) ==
    IF \A i \in 1..Len(cs) : ~IsLetter(cs[i]) THEN "User " \o Concat(cs)
    ELSE ReadName(cs, 1, FALSE, TRUE)

C16_DisplayName ==
    (probe.op = "name" /\ probe.done = 1) =>
        LET data == probe.registration_args.obj["data"] IN
        /\ Get(data, "name") = JStr(ExpectedName(probe.name_part))
        /\ Get(data, "email") = JStr(EmailOfPart(probe.name_part))
        /\ probe.description # "" => Get(data, "primary_condition") = JStr(probe.description)

\* jane.doe77 gives Jane Doe
C16_Witness ==
    /\ probe.op = "name" /\ probe.done = 1
    /\ probe.name_part = JaneDoe77 /\ probe.description = "fever"
    /\ probe.registration_args =
          JObj([data |-> JObj([name |-> JStr("Jane Doe"), email |-> JStr("jane.doe77@mail.com"),
                               primary_condition |-> JStr("fever")])])

(***************************************************************************)
(* resolve_relative_dates on a message drawn word by word, the tool        *)
(* returning the date of the keyword                                       *)
(***************************************************************************)
\* largest number of words of a message drawn word by word
MaxWords == 3
DateVocabulary == {"list", "today", "today's", "tomorrow", "tmrw", "next", "monday"}
DateMessages == UNION {[1..n -> {W(w) : w \in DateVocabulary}] : n \in 1..MaxWords}

InitReplace ==
    /\ AtRest
    /\ \E m \in DateMessages :
          probe = [op |-> "replace", message |-> m, keyword |-> "", rewritten |-> NoText,
                   done |-> 0]

Rewrite ==
    /\ probe.op = "replace" /\ probe.done = 0
    /\ LET keyword == select_keyword(probe.message) IN
       probe' = [probe EXCEPT
                    !.keyword = keyword,
                    !.rewritten = IF keyword = "" THEN probe.message
                                  ELSE replace_relative_date(probe.message,
                                                             resolved_date_of(keyword), keyword),
                    !.done = 1]
    /\ StayAtRest

NextReplace == Rewrite

SpecReplace == InitReplace /\ [][NextReplace]_vars

\* the number of words of the occurrence of keyword (optionally with its
\* possessive 's) that starts at word i of m; 0 when none starts there
KeywordAt(m, i, keyword) ==
    IF keyword = "" THEN 0
    ELSE IF m[i].s \in {keyword, keyword \o "'s"} THEN 1
    ELSE IF i < Len(m) /\ (m[i].s \o " " \o m[i + 1].s) \in {keyword, keyword \o "'s"} THEN 2
    ELSE 0

(***************************************************************************)
(* C17.  The rewritten message differs from the message in at most one     *)
(* span, an occurrence of the selected keyword (optionally with its        *)
(* possessive 's) replaced by the date; every other word is preserved.     *)
(***************************************************************************)
C17_AtMostOneSpan ==
    (probe.op = "replace" /\ probe.done = 1) =>
        LET m == probe.message
            out == probe.rewritten
        IN  \/ out = m
            \/ \E i \in 1..Len(m) :
                  /\ KeywordAt(m, i, probe.keyword) > 0
                  /\ out = SubSeq(m, 1, i - 1) \o <<W(resolved_date_of(probe.keyword))>>
                           \o SubSeq(m, i + KeywordAt(m, i, probe.keyword), Len(m))

(***************************************************************************)
(* C17 as amended.  At most one keyword is selected for a message, and the *)
(* rewritten message is the message with every occurrence of that keyword  *)
(* (optionally with its possessive 's) replaced by the date: read from     *)
(* left to right, an occurrence of the keyword gives the date and any      *)
(* other word gives itself.                                                *)
(***************************************************************************)
RECURSIVE Rewritten(_, _, _, _, _)
Rewritten(m, i, out, j, keyword) ==
    IF i > Len(m) THEN j > Len(out)
    ELSE IF j > Len(out) THEN FALSE
    ELSE IF KeywordAt(m, i, keyword) > 0
         THEN /\ out[j] = W(resolved_date_of(keyword))
              /\ Rewritten(m, i + KeywordAt(m, i, keyword), out, j + 1, keyword)
         ELSE out[j] = m[i] /\ Rewritten(m, i + 1, out, j + 1, keyword)

C17_EveryOccurrenceOfOneKeyword ==
    (probe.op = "replace" /\ probe.done = 1) =>
        Rewritten(probe.message, 1, probe.rewritten, 1, probe.keyword)

\* two occurrences of the keyword, both replaced
C17_Witness ==
    /\ probe.op = "replace" /\ probe.done = 1
    /\ probe.message = Words(<<"today", "list", "today's">>)
    /\ probe.keyword = "today"
    /\ probe.rewritten = Words(<<Today, "list", Today>>)

(***************************************************************************)
(* C18.  Processing a message changes no state of the engine other than    *)
(* the history entry of the session the message belongs to: a step of a    *)
(* request leaves the history of every other session, and the settings,    *)
(* as they were, however the requests of different sessions interleave.    *)
(***************************************************************************)
C18_OtherSessionsUntouched ==
    [][ /\ settings' = settings
        /\ \A r \in Req :
              pc'[r] # pc[r] =>
                  \A s \in Sessions \ {loc'[r].session_id} :
                      SESSION_HISTORY'[s] = SESSION_HISTORY[s] ]_vars

\* two requests of different sessions, both answered after tool calls: each
\* session holds the turns of its own request after what it held before
C18_Witness ==
    \E r \in Req, q \in Req :
        /\ pc[r] = "done" /\ pc[q] = "done"
        /\ loc[r].session_id = "s1" /\ loc[q].session_id = "s2"
        /\ calls[r] # <<>> /\ calls[q] # <<>>
        /\ loc[r].history = PriorHistory
        /\ SESSION_HISTORY["s1"] = PriorHistory
              \o <<Turn("user", loc[r].message), Turn("assistant", loc[r].response_text)>>
        /\ SESSION_HISTORY["s2"] =
              <<Turn("user", loc[q].message), Turn("assistant", loc[q].response_text)>>

(***************************************************************************)
(* force_tool_usage's choice of tool and arguments for a message drawn     *)
(* word by word from the words of its patterns                             *)
(***************************************************************************)
\* largest number of words of a query drawn word by word
MaxQueryWords == 4
QueryVocabulary ==
    {"how", "many", "list", "appointments", "patients", "with", "available", "slots",
     "dr", "slack", "summary"}
QueryMessages == UNION {[1..n -> {W(w) : w \in QueryVocabulary}] : n \in 1..MaxQueryWords}

InitSelect ==
    /\ AtRest
    /\ \E m \in QueryMessages :
          probe = [op |-> "select", message |-> m, tool_name |-> "", tool_args |-> JNull,
                   done |-> 0]

\* process_llm_response with a completion that carries no tool plan: the
\* call is forced when the message is a data query
SelectTool ==
    /\ probe.op = "select" /\ probe.done = 0
    /\ is_data_query(probe.message)
    /\ LET fc == forced_call(probe.message) IN
       probe' = [probe EXCEPT !.tool_name = fc.tool_name, !.tool_args = fc.tool_args, !.done = 1]
    /\ StayAtRest

NextSelect == SelectTool

SpecSelect == InitSelect /\ [][NextSelect]_vars

\* "patients ... with/having ..." followed by a condition in letters
PatientSearch(m) == PatientClauses(m) # {}
\* the data-query pattern "patients ... with/having"
PatientPattern(m) == Search(m, <<{"patient"}, {"with", "having"}>>)
\* the message mentions a doctor: "dr" followed by a name in letters
DoctorMentions(m) == FollowedByLetters(m, {"dr", "dr."})
PlainStats == JObj([query |-> JObj([for_date |-> JStr(Today)])])

(***************************************************************************)
(* C19.  A forced call selects one tool, by precedence among the patterns  *)
(* that match the message: count query (appointment_stats_tool), then      *)
(* list/show query (list_appointments_tool), then patient search by        *)
(* condition (patients_by_reason_tool), then availability                  *)
(* (check_doctor_availability, for the doctor mentioned after "dr", for    *)
(* "Dr. Ahuja" when none is), then Slack summary (appointment_stats_tool   *)
(* with notify true), and plain appointment_stats_tool when none matches.  *)
(***************************************************************************)
C19_Precedence ==
    (probe.op = "select" /\ probe.done = 1) =>
        LET m == probe.message
            tool == probe.tool_name
            query == probe.tool_args.obj["query"]
        IN
        /\ CountQuery(m) => tool = "appointment_stats_tool" /\ ~Has(query, "notify")
        /\ (ListQuery(m) /\ ~CountQuery(m)) => tool = "list_appointments_tool"
        /\ (PatientSearch(m) /\ ~CountQuery(m) /\ ~ListQuery(m)) =>
              tool = "patients_by_reason_tool"
        /\ (AvailabilityQuery(m) /\ ~CountQuery(m) /\ ~ListQuery(m) /\ ~PatientSearch(m)) =>
              /\ tool = "check_doctor_availability"
              /\ DoctorMentions(m) = {} => Get(query, "doctor_name") = JStr("Dr. Ahuja")
              /\ DoctorMentions(m) # {} =>
                    Get(query, "doctor_name") =
                        JStr("Dr. " \o LetterRun(m, Min(DoctorMentions(m)) + 1, TRUE))
        /\ (SlackSummary(m) /\ ~CountQuery(m) /\ ~ListQuery(m) /\ ~PatientSearch(m)
               /\ ~AvailabilityQuery(m)) =>
              tool = "appointment_stats_tool" /\ Get(query, "notify") = JTrue
        /\ (~SlackSummary(m) /\ ~CountQuery(m) /\ ~ListQuery(m) /\ ~PatientSearch(m)
               /\ ~AvailabilityQuery(m)) =>
              tool = "appointment_stats_tool" /\ probe.tool_args = PlainStats

\* a message that is both a count query and a list query
C19_Witness ==
    /\ probe.op = "select" /\ probe.done = 1
    /\ probe.message = Words(<<"list", "how", "many", "appointments">>)
    /\ CountQuery(probe.message) /\ ListQuery(probe.message)
    /\ probe.tool_name = "appointment_stats_tool"

(***************************************************************************)
(* C20.  When a forced message matches the patient-search pattern          *)
(* "patients ... with/having" and no condition can be taken from the       *)
(* with/having clause, patients_by_reason_tool is the selected tool and    *)
(* its reason_like is "fever".                                             *)
(***************************************************************************)
C20_DefaultsToFever ==
    (probe.op = "select" /\ probe.done = 1) =>
        LET m == probe.message IN
        (PatientPattern(m) /\ ~PatientSearch(m) /\ ~CountQuery(m) /\ ~ListQuery(m)) =>
            /\ probe.tool_name = "patients_by_reason_tool"
            /\ Get(probe.tool_args.obj["query"], "reason_like") = JStr("fever")

(***************************************************************************)
(* force_tool_usage's choice of the date of a forced call, for a data      *)
(* query followed by date cues: relative words and ISO dates               *)
(***************************************************************************)
\* most date cues in a message
MaxCues == 3
DateCues == {"today", "today's", "tomorrow", "yesterday", Yesterday, NextMonday}
QueryOpenings ==
    { <<"list", "appointments">>, <<"how", "many", "appointments">>,
      <<"available", "slots">>, <<"send", "slack">>, <<"patients", "with", "fever">> }
CueMessages ==
    {Words(o \o cues) : o \in QueryOpenings,
                        cues \in UNION {[1..n -> DateCues] : n \in 0..MaxCues}}

InitDate ==
    /\ AtRest
    /\ \E m \in CueMessages :
          probe = [op |-> "date", message |-> m, tool_name |-> "", tool_args |-> JNull,
                   done |-> 0]

DateOfCall ==
    /\ probe.op = "date" /\ probe.done = 0
    /\ is_data_query(probe.message)
    /\ LET fc == forced_call(probe.message) IN
       probe' = [probe EXCEPT !.tool_name = fc.tool_name, !.tool_args = fc.tool_args, !.done = 1]
    /\ StayAtRest

NextDate == DateOfCall

SpecDate == InitDate /\ [][NextDate]_vars

\* the keys of a forced call's query that carry a date
DateKeys(query) == {k \in {"date", "for_date"} : Has(query, k)}

(***************************************************************************)
(* C21.  The date of a forced call is chosen in a fixed order: an ISO date *)
(* written in the message wins over any relative word; otherwise "today"   *)
(* gives the current date, otherwise "tomorrow" the current date plus one  *)
(* day, otherwise "yesterday" the current date minus one day, and with no  *)
(* date cue the current date is used.  The call carries exactly one date.  *)
(***************************************************************************)
C21_DateOrder ==
    (probe.op = "date" /\ probe.done = 1) =>
        LET m == probe.message
            query == probe.tool_args.obj["query"]
            iso == WrittenDates(m) # {}
        IN
        /\ Cardinality(DateKeys(query)) = 1
        /\ \A k \in DateKeys(query) :
              LET d == Get(query, k) IN
              /\ IsString(d)
              /\ iso => d.str \in WrittenDates(m)
              /\ (~iso /\ Says(m, "today")) => d.str = Today
              /\ (~iso /\ ~Says(m, "today") /\ Says(m, "tomorrow")) => d.str = Tomorrow
              /\ (~iso /\ ~Says(m, "today") /\ ~Says(m, "tomorrow") /\ Says(m, "yesterday")) =>
                    d.str = Yesterday
              /\ (~iso /\ ~Says(m, "today") /\ ~Says(m, "tomorrow") /\ ~Says(m, "yesterday")) =>
                    d.str = Today

\* "yesterday" written before "tomorrow": tomorrow's date is used
C21_Witness ==
    /\ probe.op = "date" /\ probe.done = 1
    /\ probe.message = Words(<<"list", "appointments", "yesterday", "tomorrow">>)
    /\ probe.tool_args = JObj([query |-> JObj([for_date |-> JStr(Tomorrow)])])

(***************************************************************************)
(* One request, with every message and every completion of the model, and  *)
(* with a completion that names a booking in its action only                *)
(***************************************************************************)
ActionOnlyBooking ==
    JObj([action |-> JStr("book_appointment_tool"), args |-> JObj([data |-> JObj(BookingData)])])
OnceCompletions == Completions \cup {Dump(ActionOnlyBooking)}

OnceMessages == Messages \cup {Words(<<"dr", "ahuja", "monday">>)}

ReceiveOnce(r) == r = FirstSlot /\ Receive(r, OnceMessages)
CompleteOnce(r) == CallLLM(r, OnceCompletions)

\* the steps of process_agent_request
Step(r) ==
    \/ Connect(r)
    \/ ResolveDates(r)
    \/ CompleteOnce(r)
    \/ ForceToolUsage(r)
    \/ ExecuteToolPlan(r)
    \/ RegisterPatient(r)
    \/ RetryBooking(r)
    \/ DateChaining(r)
    \/ Fallback(r)

NextOnce == \E r \in Req : ReceiveOnce(r) \/ Step(r)

SpecOnce == Init /\ [][NextOnce]_vars

\* the calls of request r that raised in a step whose handler reports it
Failed(r) == {i \in 1..Len(calls[r]) : calls[r][i].error # ""}
\* call i of request r is not issued again
NotRetried(r, i) ==
    \A j \in (i + 1)..Len(calls[r]) :
        ~(calls[r][j].tool = calls[r][i].tool /\ calls[r][j].args = calls[r][i].args)

FailureText(call) ==
    IF call.step = "planned" THEN "Error executing tool " \o call.tool \o ": " \o call.error
    ELSE IF call.step = "forced" THEN "Error calling " \o call.tool \o ": " \o call.error
    ELSE IF call.step = "fallback"
    THEN "Error executing fallback tool " \o call.tool \o ": " \o call.error
    ELSE "Error during patient registration and booking: " \o call.error

DateReply == Words(<<"Date", "resolved", "to", "2025-08-18.">>)
\* the request got a completion from which no JSON object is recovered, for
\* a message (as date resolution left it) that is no data query
Unrecoverable(r) ==
    /\ pc[r] = "done"
    /\ loc[r].llm_returned
    /\ ~is_data_query(loc[r].message)
    /\ IsNull(extract_tool_plan(loc[r].llm_response))
\* the calls made after the completion
AfterCompletion(r) == {i \in 1..Len(calls[r]) : calls[r][i].step # "resolve"}

(***************************************************************************)
(* C23.  For a message that matches no data-query pattern and a completion *)
(* from which no JSON object is recovered, the text returned is the        *)
(* completion itself and no tool call is made after the completion.        *)
(***************************************************************************)
C23_PassThrough ==
    \A r \in Req :
        Unrecoverable(r) =>
            /\ loc[r].response_text = loc[r].llm_response
            /\ AfterCompletion(r) = {}

(***************************************************************************)
(* C23 as amended.  For such a message and completion the text returned is *)
(* the completion itself and no tool call is made after the completion,    *)
(* unless the completion is a date-resolution reply ("Date resolved to     *)
(* <date>") and the message names a doctor: then exactly one call follows  *)
(* the completion, the availability follow-up.                             *)
(***************************************************************************)
C23_PassThroughUnlessDateReply ==
    \A r \in Req :
        Unrecoverable(r) =>
            IF loc[r].llm_response = DateReply /\ DoctorMentions(loc[r].message) # {}
            THEN /\ Cardinality(AfterCompletion(r)) = 1
                 /\ \A i \in AfterCompletion(r) :
                       calls[r][i].step = "chain" /\ calls[r][i].tool = "check_doctor_availability"
            ELSE /\ loc[r].response_text = loc[r].llm_response
                 /\ AfterCompletion(r) = {}

\* prose returned as it is for a message that names a doctor
C23_Witness ==
    \E r \in Req :
        /\ Unrecoverable(r)
        /\ DoctorMentions(loc[r].message) # {}
        /\ loc[r].llm_response = Phrase("You have 3 appointments with John Doe.")
        /\ loc[r].response_text = loc[r].llm_response
        /\ AfterCompletion(r) = {}

(***************************************************************************)
(* C24.  The engine registers a patient on its own initiative only right   *)
(* after a planned book_appointment_tool call whose formatted result       *)
(* contains "Patient not found" and whose arguments carry a patient email, *)
(* and it retries a booking only right after such a registration.  A       *)
(* booking made by the fallback execution, and a planned call of another   *)
(* tool, are followed by no registration and no retry; without a patient   *)
(* email neither is made.                                                  *)
(***************************************************************************)
C24_RegistrationOnlyAfterPlannedBooking ==
    \A r \in Req : \A i \in 1..Len(calls[r]) :
        /\ calls[r][i].step = "register" =>
              /\ i > 1
              /\ calls[r][i - 1].step = "planned"
              /\ calls[r][i - 1].tool = "book_appointment_tool"
              /\ PatientNotFound \in TextStrings(loc[r].formatted_response)
              /\ Str(GetOr(GetOr(calls[r][i - 1].args, "data", JObj(EmptyMap)),
                           "patient_email", JStr(""))) # ""
        /\ calls[r][i].step = "retry" => i > 1 /\ calls[r][i - 1].step = "register"
        /\ calls[r][i].step = "fallback" => i = Len(calls[r])
        /\ (calls[r][i].step = "planned" /\ calls[r][i].tool # "book_appointment_tool") =>
              \A j \in 1..Len(calls[r]) : calls[r][j].step \notin {"register", "retry"}

\* a booking made by the fallback execution found no patient: the text says
\* so and no registration follows
C24_Witness ==
    \E r \in Req :
        /\ pc[r] = "done"
        /\ \E i \in CallsIn(r, "fallback") : calls[r][i].tool = "book_appointment_tool"
        /\ PatientNotFound \in TextStrings(loc[r].response_text)
        /\ CallsIn(r, "register") = {}

(***************************************************************************)
(* resolve_relative_dates as a whole, on a message drawn word by word: the *)
(* tool is advertised or not, and its call raises or returns a content     *)
(***************************************************************************)
ResolveVocabulary ==
    {"list", "today", "tomorrow", "tmrw", "yesterday", "next", "monday", "mondays"}
ResolveMessages == UNION {[1..n -> {W(w) : w \in ResolveVocabulary}] : n \in 1..MaxWords}
\* what the call for a keyword can give the engine
ResolveOutcomes(args) ==
    Outcomes("resolve_date_tool", args)
    \cup {[raised |-> FALSE, content |-> Dump(JObj([error |-> JStr("empty text")]))]}
NoOutcome == [raised |-> FALSE, content |-> NoText]

InitResolve ==
    /\ AtRest
    /\ \E m \in ResolveMessages, adv \in BOOLEAN :
          probe = [op |-> "resolve", message |-> m, advertised |-> adv, keyword |-> "",
                   resolve_calls |-> <<>>, out |-> NoOutcome, rewritten |-> NoText, done |-> 0]

Resolve ==
    /\ probe.op = "resolve" /\ probe.done = 0
    /\ LET message == probe.message
           keyword == select_keyword(message)
           args == JObj([text |-> JStr(keyword)])
       IN  IF ~probe.advertised
           THEN probe' = [probe EXCEPT !.rewritten = message, !.done = 1]
           ELSE IF keyword = ""
           THEN probe' = [probe EXCEPT !.rewritten = message, !.done = 1]
           ELSE \E out \in ResolveOutcomes(args) :
                   probe' = [probe EXCEPT !.keyword = keyword,
                                          !.resolve_calls = <<args>>,
                                          !.out = out,
                                          !.rewritten = resolved_message(message, keyword, out),
                                          !.done = 1]
    /\ StayAtRest

NextResolve == Resolve

SpecResolve == InitResolve /\ [][NextResolve]_vars

\* the words by which a message carries the cue of a keyword
CueWords(keyword) ==
    IF keyword = "tomorrow" THEN {"tomorrow", "tmrw"}
    ELSE IF keyword = "today" THEN {"today"}
    ELSE IF keyword = "yesterday" THEN {"yesterday"}
    ELSE {"monday", "mondays"}
\* message m carries the cue of keyword
Cue(m, keyword) ==
    IF keyword = "next monday"
    THEN \E i \in 1..(Len(m) - 1) : m[i].s = "next" /\ m[i + 1].s \in CueWords("monday")
    ELSE \E i \in 1..Len(m) : m[i].s \in CueWords(keyword)
\* the keyword of highest priority whose cue m carries, "" when it carries none
Preferred(m) ==
    IF Cue(m, "next monday") THEN "next monday"
    ELSE IF Cue(m, "monday") THEN "monday"
    ELSE IF Cue(m, "tomorrow") THEN "tomorrow"
    ELSE IF Cue(m, "yesterday") THEN "yesterday"
    ELSE IF Cue(m, "today") THEN "today"
    ELSE ""
\* the call returned a date
ReturnedDate(out) ==
    ~out.raised /\ out.content \in {Dump(JObj([date |-> JStr(d)])) : d \in IsoDates}

(***************************************************************************)
(* C25.  Date resolution makes at most one resolve_date_tool call for a    *)
(* message, for one keyword: a weekday name when the message has one       *)
(* ("next <day>" preferred over the bare day), otherwise "tomorrow" when   *)
(* the message has it or one of its misspellings, otherwise "yesterday",   *)
(* otherwise "today"; a message with several cues resolves only the one of *)
(* highest priority.                                                       *)
(***************************************************************************)
C25_OneKeywordByPriority ==
    (probe.op = "resolve" /\ probe.done = 1) =>
        /\ Len(probe.resolve_calls) <= 1
        /\ \A i \in 1..Len(probe.resolve_calls) :
              probe.resolve_calls[i] = JObj([text |-> JStr(Preferred(probe.message))])
        /\ (probe.advertised /\ Preferred(probe.message) # "") => Len(probe.resolve_calls) = 1

\* a message with "today", a misspelt "tomorrow" and a weekday
C25_Witness ==
    /\ probe.op = "resolve" /\ probe.done = 1
    /\ probe.message = Words(<<"today", "tmrw", "monday">>)
    /\ probe.resolve_calls = <<JObj([text |-> JStr("monday")])>>

(***************************************************************************)
(* C26.  When the tool is advertised, a keyword is found (also through a   *)
(* misspelling or inside a longer word) and the tool returns a date, the   *)
(* rewritten message, on which the rest of the pipeline runs, no longer    *)
(* contains the cue of that keyword.                                       *)
(***************************************************************************)
C26_CueReplaced ==
    (probe.op = "resolve" /\ probe.done = 1) =>
        ((probe.advertised /\ probe.keyword # "" /\ ReturnedDate(probe.out)) =>
            ~Cue(probe.rewritten, probe.keyword))

(***************************************************************************)
(* C27.  The message that leaves date resolution differs from the original *)
(* only if the tool was advertised, a keyword was found and the call        *)
(* returned a date: no call is made when the tool is not advertised, and   *)
(* the message is left as it was when the call raises, returns an error or *)
(* returns content that does not parse.                                    *)
(***************************************************************************)
C27_ChangedOnlyByAResolvedDate ==
    (probe.op = "resolve" /\ probe.done = 1) =>
        /\ probe.rewritten # probe.message =>
              /\ probe.advertised
              /\ Preferred(probe.message) # ""
              /\ Len(probe.resolve_calls) = 1
              /\ ReturnedDate(probe.out)
        /\ ~probe.advertised => probe.resolve_calls = <<>>
        /\ (Len(probe.resolve_calls) = 1 /\ ~ReturnedDate(probe.out)) =>
              probe.rewritten = probe.message

\* the call raised: the message is as it was
C27_Witness ==
    /\ probe.op = "resolve" /\ probe.done = 1
    /\ probe.advertised
    /\ probe.message = Words(<<"list", "tomorrow">>)
    /\ probe.resolve_calls = <<JObj([text |-> JStr("tomorrow")])>>
    /\ probe.out.raised
    /\ probe.rewritten = probe.message

\* the text handed to the date-resolution chaining of request r is the
\* date-resolution reply of the model
DateReplied(r) ==
    /\ loc[r].llm_returned
    /\ loc[r].llm_response = DateReply
    /\ ~is_data_query(loc[r].message)
\* the doctor taken from a message "dr ahuja <word> ..."
NamedDoctor(m) ==
    "Dr. Ahuja" \o (IF Len(m) < 3 THEN ""
                    ELSE IF m[3].s = "next" THEN " Next"
                    ELSE IF m[3].s = "monday" THEN " Monday"
                    ELSE "")
\* the time-of-day term of a message, null when it has none
NamedPeriod(m) ==
    IF \E i \in 1..Len(m) : m[i].s = "morning" THEN JStr("morning") ELSE JNull
\* the texts an availability call with arguments args can give
AvailabilityTexts(args) ==
    {format_availability_response(c) : c \in ToolContents("check_doctor_availability", args)}

Due == {"connect", "resolve", "llm", "force", "plan", "register", "retry", "chain", "fallback"}
\* request r moves on: one of its steps is taken
Moves(r) ==
    /\ pc[r] \in Due
    /\ pc' \in {[pc EXCEPT ![r] = p] : p \in (Due \cup {"done", "aborted"}) \ {pc[r]}}

SpecLive == Init /\ [][NextOnce]_vars /\ \A r \in Req : WF_pc(Moves(r))

\* the order of the steps of process_agent_request
Rank(p) ==
    CASE p = "idle" -> 0
      [] p = "connect" -> 1
      [] p = "resolve" -> 2
      [] p = "llm" -> 3
      [] p \in {"force", "plan"} -> 4
      [] p = "register" -> 5
      [] p = "retry" -> 6
      [] p = "chain" -> 7
      [] p = "fallback" -> 8
      [] OTHER -> 9
\* the kinds of call a request can make
CallSteps == {"resolve", "planned", "forced", "register", "retry", "chain", "fallback"}
\* the processing of the message of request r has ended
Ended(r) == pc[r] \in {"done", "aborted"}

(***************************************************************************)
(* C29.  Processing of every message ends, provided each model call and    *)
(* each tool call returns or fails: at most one completion is requested    *)
(* and at most five tool calls are made (each kind of call at most once),  *)
(* and no step is taken twice, every step leading to a later one.          *)
(***************************************************************************)
C29_Terminates ==
    /\ [](\A r \in Req :
             /\ completions[r] <= 1
             /\ Len(calls[r]) <= 5
             /\ \A step \in CallSteps : Cardinality(CallsIn(r, step)) <= 1
             /\ \A i \in 1..Len(calls[r]) : calls[r][i].step \in CallSteps)
    /\ [][\A r \in Req : pc'[r] # pc[r] => Rank(pc[r]) < Rank(pc'[r])]_vars
    /\ \A r \in Req : (pc[r] = "connect") ~> Ended(r)

\* a request that ended after the date resolution, the completion, the
\* planned booking, the registration and the booking retry
C29_Witness ==
    \E r \in Req :
        /\ pc[r] = "done"
        /\ completions[r] = 1
        /\ [i \in 1..Len(calls[r]) |-> calls[r][i].step]
              = <<"resolve", "planned", "register", "retry">>

\* the text has no opening brace
NoBrace(prefix, o, suffix) ==
    /\ ~IsDict(o)
    /\ \A i \in 1..Len(prefix) : prefix[i] # "{oops"
    /\ \A i \in 1..Len(suffix) : suffix[i] # "{oops"
\* the first opening brace of the text is that of the object o
OpensWithObject(prefix, o) == IsDict(o) /\ \A i \in 1..Len(prefix) : prefix[i] # "{oops"
\* the closing brace of o is more than 10,000 characters past its opening
\* brace and the characters before it
TooLong(o) == SerializedLen(o) - 2 > 10000
\* a closing brace in a string of o ends the candidate before the object ends
CutShort(o) == "a}" \in StringsOf(o)
\* what balancing the braces from the first opening brace gives
Balanced(prefix, o, suffix) ==
    IF OpensWithObject(prefix, o) /\ ~TooLong(o) /\ ~CutShort(o) THEN o ELSE JNull

(***************************************************************************)
(* C30.  Plan extraction returns null when the text has no opening brace,  *)
(* when the scan goes more than 10,000 characters past the first "{"       *)
(* without the depth returning to zero, and when the candidate (from the   *)
(* first "{" to where the depth returns to zero) is not a JSON object; in  *)
(* every other case it returns the object.                                 *)
(***************************************************************************)
C30_NullOrTheCandidate ==
    (probe.op = "extract" /\ probe.done = 1) =>
        /\ NoBrace(probe.prefix, probe.o, probe.suffix) => probe.plan = JNull
        /\ probe.plan = Balanced(probe.prefix, probe.o, probe.suffix)

(***************************************************************************)
(* C30 as amended.  A text that is as a whole a JSON object gives that     *)
(* object, whatever its length and its strings.  Any other text gives what *)
(* balancing the braces gives: null when the text has no opening brace,    *)
(* when the scan goes more than 10,000 characters past the first "{"       *)
(* without the depth returning to zero, and when the candidate is not a    *)
(* JSON object, and the candidate object in every other case.              *)
(***************************************************************************)
C30_WholeTextOrTheCandidate ==
    (probe.op = "extract" /\ probe.done = 1) =>
        /\ NoBrace(probe.prefix, probe.o, probe.suffix) => probe.plan = JNull
        /\ probe.plan = IF IsDict(probe.o) /\ probe.prefix = <<>> /\ probe.suffix = <<>>
                        THEN probe.o
                        ELSE Balanced(probe.prefix, probe.o, probe.suffix)

\* an answer longer than the scan goes, alone in the text: it is returned
C30_Witness ==
    /\ probe.op = "extract" /\ probe.done = 1
    /\ probe.prefix = <<>> /\ probe.suffix = <<>>
    /\ IsDict(probe.o) /\ TooLong(probe.o)
    /\ probe.plan = probe.o

(***************************************************************************)
(* C31.  Argument normalization is total: for every tool name, known or    *)
(* not, and every raw argument value it returns a map; a value that is not *)
(* a map is turned into its string form and wrapped in the default shape   *)
(* of the tool: {text}, {sql}, {data: {raw}}, {query: {text}} for the      *)
(* availability check, and {query: {raw}} otherwise.                       *)
(***************************************************************************)
\* the string form of the raw values that are not maps
StringForm(v) ==
    CASE v = JStr("next monday") -> "next monday"
      [] v = JStr("") -> ""
      [] v = JNull -> "None"
      [] v = JTrue -> "True"
      [] v = JNum(3) -> "3"
      [] v = JArr(<<>>) -> "[]"
\* the default shape of a tool around a string
DefaultShape(tool_name, str) ==
    CASE tool_name = "resolve_date_tool" -> JObj([text |-> JStr(str)])
      [] tool_name = "sql_read_tool" -> JObj([sql |-> JStr(str)])
      [] tool_name \in {"book_appointment_tool", "register_patient_tool",
                        "cancel_appointments_by_date_tool"}
            -> JObj([data |-> JObj([raw |-> JStr(str)])])
      [] tool_name = "check_doctor_availability" -> JObj([query |-> JObj([text |-> JStr(str)])])
      [] OTHER -> JObj([query |-> JObj([raw |-> JStr(str)])])
C31_Total ==
    (probe.op = "normalize" /\ probe.done >= 1) =>
        /\ IsDict(probe.once)
        /\ probe.args \in RawNonMaps =>
              probe.once = DefaultShape(probe.tool_name, StringForm(probe.args))

\* a number given to a tool the normalizer does not know
C31_Witness ==
    /\ probe.op = "normalize" /\ probe.done = 1
    /\ probe.tool_name = "list_doctors_tool" /\ probe.args = JNum(3)
    /\ probe.once = JObj([query |-> JObj([raw |-> JStr("3")])])

(***************************************************************************)
(* C32.  For book_appointment_tool, register_patient_tool and              *)
(* cancel_appointments_by_date_tool and every raw argument map, the        *)
(* normalized arguments are a map whose only key is data, holding the      *)
(* value of data of the raw arguments when that is a map and the raw       *)
(* arguments themselves otherwise.                                         *)
(***************************************************************************)
C32_OnlyData ==
    (probe.op = "normalize" /\ probe.done >= 1 /\ probe.tool_name \in DataTools
       /\ IsDict(probe.args)) =>
        /\ DOMAIN probe.once.obj = {"data"}
        /\ probe.once.obj["data"] =
              (IF IsDict(Get(probe.args, "data")) THEN Get(probe.args, "data") ELSE probe.args)

(***************************************************************************)
(* C33.  Key remapping.  For appointment_stats_tool a payload with a date  *)
(* key and no for_date key comes out with for_date holding that value and  *)
(* no date key; for patients_by_reason_tool a payload with condition_like  *)
(* and no reason_like comes out with reason_like and no condition_like;    *)
(* every other key keeps its value, and in every other case, the other     *)
(* query tools included, the payload comes out as it went in.              *)
(***************************************************************************)
\* the payload of the raw arguments of a query tool
PayloadOf(args) == IF IsDict(Get(args, "query")) THEN Get(args, "query") ELSE args
\* the payload q is the payload p with the value of key old under key new
Renamed(p, q, old, new) ==
    /\ DOMAIN q.obj = (DOMAIN p.obj \ {old}) \cup {new}
    /\ q.obj[new] = p.obj[old]
    /\ \A k \in DOMAIN p.obj \ {old} : q.obj[k] = p.obj[k]
C33_KeyRemapping ==
    (probe.op = "normalize" /\ probe.done >= 1 /\ probe.tool_name \in QueryTools
       /\ IsDict(probe.args)) =>
        LET p == PayloadOf(probe.args)
            q == probe.once.obj["query"]
        IN  /\ DOMAIN probe.once.obj = {"query"}
            /\ IF probe.tool_name = "appointment_stats_tool"
                   /\ "date" \in DOMAIN p.obj /\ "for_date" \notin DOMAIN p.obj
               THEN Renamed(p, q, "date", "for_date")
               ELSE IF probe.tool_name = "patients_by_reason_tool"
                       /\ "condition_like" \in DOMAIN p.obj /\ "reason_like" \notin DOMAIN p.obj
               THEN Renamed(p, q, "condition_like", "reason_like")
               ELSE q = p

\* a statistics request with date and condition_like: the date is renamed,
\* condition_like is kept
C33_Witness ==
    /\ probe.op = "normalize" /\ probe.done = 1
    /\ probe.tool_name = "appointment_stats_tool"
    /\ probe.args = JObj([date |-> JStr(Today), condition_like |-> JStr("fever")])
    /\ probe.once = JObj([query |-> JObj([for_date |-> JStr(Today),
                                          condition_like |-> JStr("fever")])])

(***************************************************************************)
(* format_tool_response applied to a content of any kind: text that is not *)
(* JSON, JSON that is not an object, objects without the fields a          *)
(* formatter indexes, error results, and well-formed results               *)
(***************************************************************************)
FormattedTools ==
    {"check_doctor_availability", "appointment_stats_tool", "list_appointments_tool",
     "patients_by_reason_tool", "register_patient_tool", "book_appointment_tool"}
PassedThroughTools ==
    {"sql_read_tool", "resolve_date_tool", "cancel_appointments_by_date_tool", "list_doctors_tool"}
ErrorTexts == {"Doctor not found", "1 validation error for DoctorAvailabilityQuery"}
\* text json.loads rejects: no text, prose, an object followed by prose
MalformedContents ==
    {NoText, Phrase("oops"), BackendErrorText("list_appointments_tool"),
     <<J(JObj([appointments |-> JArr(<<>>)])), W("done.")>>,
     <<W("Sure:"), J(JObj([message |-> JStr(BookedMessage)]))>>}
\* JSON values that are not objects
NonObjectContents ==
    {Dump(JArr(<<>>)), Dump(JArr(<<AppointmentRow>>)), Dump(JStr(BookedMessage)),
     Dump(JNum(3)), Dump(JNull), Dump(JTrue)}
\* items without the fields the list formatters index
RowsWithoutTimes ==
    {Without(AppointmentRow, "start_at"), Without(AppointmentRow, "end_at"),
     Without(Without(AppointmentRow, "start_at"), "end_at")}
ContentsWithoutTimes(tool_name) ==
    IF tool_name = "list_appointments_tool"
    THEN {Dump(JObj([appointments |-> JArr(<<row>>)])) : row \in RowsWithoutTimes}
              \cup {Dump(JObj([appointments |-> JArr(<<AppointmentRow, row>>)])) :
                        row \in RowsWithoutTimes}
    ELSE IF tool_name = "patients_by_reason_tool"
    THEN {Dump(JObj([patients |-> JArr(<<row>>)])) : row \in RowsWithoutTimes}
              \cup {Dump(JObj([patients |-> JArr(<<AppointmentRow, row>>)])) :
                        row \in RowsWithoutTimes}
    ELSE {}
\* results that carry an error field and nothing else
ErrorContents == {Dump(JObj([error |-> JStr(e)])) : e \in ErrorTexts}
WellFormedContents ==
    UNION {ToolContents(t, JNull) : t \in FormattedTools} \cup {Dump(JObj(EmptyMap))}
KindsOfContent == {"malformed", "nonobject", "fieldless", "error", "wellformed"}
ContentsOf(kind, tool_name) ==
    CASE kind = "malformed" -> MalformedContents
      [] kind = "nonobject" -> NonObjectContents
      [] kind = "fieldless" -> ContentsWithoutTimes(tool_name)
      [] kind = "error" -> ErrorContents
      [] OTHER -> WellFormedContents

InitTolerant ==
    /\ AtRest
    /\ \E t \in FormattedTools \cup PassedThroughTools, kind \in KindsOfContent :
          \E c \in ContentsOf(kind, t) :
             probe = [op |-> "tolerant", tool_name |-> t, kind |-> kind, content |-> c,
                      text |-> NoText, done |-> 0]

FormatAny ==
    /\ probe.op = "tolerant" /\ probe.done = 0
    /\ probe' = [probe EXCEPT !.text = format_tool_response(probe.tool_name, probe.content),
                              !.done = 1]
    /\ StayAtRest

NextTolerant == FormatAny

SpecTolerant == InitTolerant /\ [][NextTolerant]_vars

(***************************************************************************)
(* C34.  The Response Formatter returns the content unchanged when the     *)
(* tool has no formatter of its own, and when the content given to a tool  *)
(* with a formatter is not JSON, is JSON other than an object, or is an    *)
(* object whose items lack a field the formatter indexes (start_at and     *)
(* end_at of a listed appointment or patient).                             *)
(***************************************************************************)
C34_ContentUnchanged ==
    (probe.op = "tolerant" /\ probe.done = 1) =>
        /\ probe.tool_name \notin FormattedTools => probe.text = probe.content
        /\ probe.kind \in {"malformed", "nonobject", "fieldless"} => probe.text = probe.content

\* an appointment list followed by prose, given to the list formatter
C34_Witness ==
    /\ probe.op = "tolerant" /\ probe.done = 1
    /\ probe.tool_name = "list_appointments_tool"
    /\ probe.content = <<J(JObj([appointments |-> JArr(<<>>)])), W("done.")>>
    /\ probe.text = probe.content

(***************************************************************************)
(* C36.  A result of check_doctor_availability, list_appointments_tool,    *)
(* patients_by_reason_tool or appointment_stats_tool that carries only an  *)
(* error field is formatted as the empty result of the tool: no slots, no  *)
(* appointments, no matching patients, zero totals; the text does not hold *)
(* the error text.  The results of booking and registration are formatted  *)
(* as their error text.                                                    *)
(***************************************************************************)
EmptyResultText(tool_name) ==
    CASE tool_name = "check_doctor_availability"
            -> Phrase("No available slots found for the doctor in the next 3 weeks.")
      [] tool_name = "appointment_stats_tool"
            -> Phrase("Total appointments: 0; Completed: 0; Canceled: 0")
      [] tool_name = "list_appointments_tool" -> Phrase("No appointments found.")
      [] tool_name = "patients_by_reason_tool" -> Phrase("No matching patients found.")
C36_ErrorShownAsEmptyResult ==
    (probe.op = "tolerant" /\ probe.done = 1 /\ probe.kind = "error") =>
        LET error == probe.content[1].j.obj["error"].str IN
        /\ probe.tool_name \in QueryTools =>
              /\ probe.text = EmptyResultText(probe.tool_name)
              /\ error \notin TextStrings(probe.text)
        /\ probe.tool_name \in {"register_patient_tool", "book_appointment_tool"} =>
              probe.text = Phrase(error)

\* the doctor was not found, the text says that no slot is free
C36_Witness ==
    /\ probe.op = "tolerant" /\ probe.done = 1
    /\ probe.tool_name = "check_doctor_availability"
    /\ probe.content = Dump(JObj([error |-> JStr("Doctor not found")]))
    /\ probe.text = Phrase("No available slots found for the doctor in the next 3 weeks.")

(***************************************************************************)
(* The last step of process_agent_request (lines 741-745) seen as a step   *)
(* from the text about to be returned to the text returned                 *)
(***************************************************************************)
\* request r takes the step
FallbackStep(r) == pc[r] = "fallback" /\ pc'[r] = "done"
\* the object recovered from the text about to be returned (JNull: none)
Recovered(r) == extract_tool_plan(loc[r].response_text)
\* the action of a recovered object, lower-cased ("" when it has none)
ActionOf(plan) == IF Has(plan, "action") THEN Lower(plan.obj["action"].str) ELSE ""
\* the action asks for a tool
AsksForTool(action) == action \in {"tool", "call_tool"} \cup ToolSuffixed
\* the step made one call, the fallback call, of the tool the object names
OneFallbackCall(r, plan) ==
    /\ Len(calls'[r]) = Len(calls[r]) + 1
    /\ SubSeq(calls'[r], 1, Len(calls[r])) = calls[r]
    /\ calls'[r][Len(calls'[r])].step = "fallback"
    /\ calls'[r][Len(calls'[r])].tool =
          (IF Truthy(Get(plan, "tool_name")) THEN plan.obj["tool_name"].str
           ELSE plan.obj["action"].str)
\* the formatted results of the last call of the step
FormattedResults(r) ==
    LET call == calls'[r][Len(calls'[r])] IN
    {format_tool_response(call.tool, c) : c \in ToolContents(call.tool, call.args)}
Unable == Phrase("Unable to execute the requested tool.")

(***************************************************************************)
(* C35.  Whenever the text about to be returned contains a recoverable     *)
(* JSON object, the caller receives another text: the formatted result of  *)
(* one more tool call if the action of the object is "tool", "call_tool"   *)
(* or ends with "_tool", and "Unable to execute the requested tool."       *)
(* otherwise.                                                              *)
(***************************************************************************)
C35_NeverTheRecoveredText ==
    [][\A r \in Req :
          (FallbackStep(r) /\ ~IsNull(Recovered(r))) =>
              /\ loc'[r].response_text # loc[r].response_text
              /\ IF AsksForTool(ActionOf(Recovered(r)))
                 THEN /\ OneFallbackCall(r, Recovered(r))
                      /\ loc'[r].response_text \in FormattedResults(r)
                 ELSE /\ calls'[r] = calls[r]
                      /\ loc'[r].response_text = Unable]_vars

(***************************************************************************)
(* C35 as amended.  Whenever the text about to be returned contains a      *)
(* recoverable JSON object that is not empty, the caller receives another  *)
(* text: if the action of the object is "tool", "call_tool" or ends with   *)
(* "_tool", one more tool call is made and the text is its formatted       *)
(* result, or "Error executing fallback tool <name>: <exception>" when the *)
(* call fails; otherwise the text is "Unable to execute the requested      *)
(* tool.".  When the recovered object is empty, or no object is recovered, *)
(* the text is returned as it is and no call is made.                      *)
(***************************************************************************)
C35_NeverANonEmptyRecoveredObject ==
    [][\A r \in Req :
          FallbackStep(r) =>
              IF IsNull(Recovered(r)) \/ Recovered(r) = JObj(EmptyMap)
              THEN /\ loc'[r].response_text = loc[r].response_text
                   /\ calls'[r] = calls[r]
              ELSE /\ loc'[r].response_text # loc[r].response_text
                   /\ IF AsksForTool(ActionOf(Recovered(r)))
                      THEN /\ OneFallbackCall(r, Recovered(r))
                           /\ IF calls'[r][Len(calls'[r])].error = ""
                              THEN loc'[r].response_text \in FormattedResults(r)
                              ELSE loc'[r].response_text =
                                      Phrase("Error executing fallback tool "
                                             \o calls'[r][Len(calls'[r])].tool \o ": "
                                             \o calls'[r][Len(calls'[r])].error)
                      ELSE /\ calls'[r] = calls[r]
                           /\ loc'[r].response_text = Unable]_vars

\* a completion that names a tool as its action only, for a message that is
\* no data query: the listing is made by the fallback call
C35_Witness ==
    \E r \in Req :
        /\ pc[r] = "done"
        /\ loc[r].llm_response = Dump(ActionOnlyPlan)
        /\ [i \in 1..Len(calls[r]) |-> calls[r][i].step] = <<"fallback">>
        /\ calls[r][1].tool = "list_appointments_tool"
        /\ loc[r].response_text = Phrase("No appointments found.")

InitBook == AtRest /\ probe = NoProbe

Untouched == UNCHANGED <<SESSION_HISTORY, settings, pc, loc, calls, completions, received, probe>>

\* book_appointment_tool, lines 293-305: the request is validated and the
\* doctor and the patient are looked up (the patient is registered)
BookRequest(b, requests) ==
    /\ booking[b].pc = "idle"
    /\ \E rq \in requests :
          booking' = [booking EXCEPT ![b] =
                         IF rq.doctor_id \notin Doctors
                         THEN [pc |-> "done", doctor_id |-> rq.doctor_id, start_at |-> rq.start_at,
                               end_at |-> rq.end_at, result |-> "Doctor not found"]
                         ELSE [pc |-> "slots", doctor_id |-> rq.doctor_id, start_at |-> rq.start_at,
                               end_at |-> rq.end_at, result |-> ""]]
    /\ UNCHANGED appointments
    /\ Untouched

\* book_appointment, lines 104-114
CheckAvailability(b) ==
    /\ booking[b].pc = "slots"
    /\ LET start_at == booking[b].start_at
           end_at == booking[b].end_at
           requested_minutes == end_at - start_at
       IN  IF requested_minutes <= 0
           THEN booking' = [booking EXCEPT ![b].pc = "done", ![b].result = "Invalid time range"]
           ELSE IF <<start_at, end_at>> \notin
                      find_availability_slots(appointments, booking[b].doctor_id,
                                              start_at \div DayLen, NoPart, requested_minutes)
           THEN booking' = [booking EXCEPT ![b].pc = "done", ![b].result = OutsideAvailability]
           ELSE booking' = [booking EXCEPT ![b].pc = "conflicts"]
    /\ UNCHANGED appointments
    /\ Untouched

\* book_appointment, lines 116-125
CheckConflicts(b) ==
    /\ booking[b].pc = "conflicts"
    /\ IF conflicts(appointments, booking[b].doctor_id, booking[b].start_at, booking[b].end_at) > 0
       THEN booking' = [booking EXCEPT ![b].pc = "done", ![b].result = OverlapsExisting]
       ELSE booking' = [booking EXCEPT ![b].pc = "insert"]
    /\ UNCHANGED appointments
    /\ Untouched

\* book_appointment, lines 127-138, and book_appointment_tool, lines 307-310:
\* the row is written unless the table has a row of the doctor with the
\* start, and the failure of the commit is returned as an error
Insert(b) ==
    /\ booking[b].pc = "insert"
    /\ IF uix_doctor_start(appointments, booking[b].doctor_id, booking[b].start_at)
       THEN /\ booking' = [booking EXCEPT ![b].pc = "done", ![b].result = IntegrityError]
            /\ UNCHANGED appointments
       ELSE /\ appointments' = appointments \cup
                  {[id |-> Cardinality(appointments) + 1, doctor_id |-> booking[b].doctor_id,
                    start_at |-> booking[b].start_at, end_at |-> booking[b].end_at,
                    status |-> "scheduled"]}
            /\ booking' = [booking EXCEPT ![b].pc = "done", ![b].result = "booked"]
    /\ Untouched

\* book_appointment_tool returns
BookReply(b) ==
    /\ booking[b].pc = "done"
    /\ booking' = [booking EXCEPT ![b] = NoBooking]
    /\ UNCHANGED appointments
    /\ Untouched

\* cancel_appointment, lines 147-154, of an appointment that is in the table
\* and is not canceled yet (canceling again changes nothing)
CancelAppointment(appointment_id) ==
    /\ \E appt \in appointments : appt.id = appointment_id /\ appt.status # "canceled"
    /\ appointments' = {IF a.id = appointment_id THEN [a EXCEPT !.status = "canceled"] ELSE a :
                           a \in appointments}
    /\ UNCHANGED booking
    /\ Untouched

\* cancel_appointments_by_date, lines 157-177; doctor_id 0: every doctor
CancelByDate(the_date, doctor_id) ==
    /\ LET apps == {a \in appointments : /\ a.start_at >= the_date * DayLen
                                         /\ a.start_at < (the_date + 1) * DayLen
                                         /\ a.status # "canceled"
                                         /\ doctor_id # 0 => a.doctor_id = doctor_id}
       IN  /\ apps # {}
           /\ appointments' = {IF a \in apps THEN [a EXCEPT !.status = "canceled"] ELSE a :
                                  a \in appointments}
    /\ UNCHANGED booking
    /\ Untouched

\* the steps of a call of book_appointment_tool after its request
BookingStep(b) == CheckAvailability(b) \/ CheckConflicts(b) \/ Insert(b) \/ BookReply(b)
Cancels ==
    \/ \E appt \in appointments : CancelAppointment(appt.id)
    \/ \E the_date \in Days, doctor_id \in {0} \cup Doctors : CancelByDate(the_date, doctor_id)
NoneBooking == \A b \in Bookers : booking[b].pc = "idle"

\* operations executed one at a time
BookAlone(b) == b = "b1" /\ NoneBooking /\ BookRequest(b, BookingRequests)
CancelAlone == NoneBooking /\ Cancels
NextBook == (\E b \in Bookers : BookAlone(b) \/ BookingStep(b)) \/ CancelAlone
SpecBook == InitBook /\ [][NextBook]_vars

\* booking requests for the same doctor that run concurrently
BookConcurrently(b) == BookRequest(b, MorningRequests)
NextBookRace == (\E b \in Bookers : BookConcurrently(b) \/ BookingStep(b)) \/ Cancels
SpecBookRace == InitBook /\ [][NextBookRace]_vars

\* no two appointments of a doctor that are not canceled overlap
Live(rows) == {a \in rows : a.status # "canceled"}
Overlapping(a, c) == a.doctor_id = c.doctor_id /\ a.start_at < c.end_at /\ c.start_at < a.end_at
NoOverlap == \A a, c \in Live(appointments) : a # c => ~Overlapping(a, c)
\* the interval is a slot of its own length of a window of the doctor on the
\* day of its start, and meets no appointment of the doctor that is not
\* canceled
IsFreeSlot(rows, doctor_id, start_at, end_at) ==
    /\ end_at > start_at
    /\ \E w \in Availability(doctor_id, weekday(start_at \div DayLen)) :
          LET open == (start_at \div DayLen) * DayLen + w.start_time
              close == (start_at \div DayLen) * DayLen + w.end_time
          IN  /\ open <= start_at /\ end_at <= close
              /\ (start_at - open) % (end_at - start_at) = 0
    /\ \A a \in Live(rows) :
          a.doctor_id = doctor_id => ~(a.start_at < end_at /\ start_at < a.end_at)

(***************************************************************************)
(* C37.  With bookings and cancellations executed one at a time, no two    *)
(* appointments of a doctor that are not canceled ever overlap; a booking  *)
(* succeeds only if its interval is a free slot of the doctor's            *)
(* availability for the day and overlaps no appointment of the doctor that *)
(* is not canceled, and it then adds its one row; a rejected booking and   *)
(* every other step of a booking leave the table as it is; a cancellation  *)
(* changes nothing but the status of rows.                                 *)
(***************************************************************************)
C37_NoOverlap ==
    /\ [](NoOverlap)
    /\ [][\A b \in Bookers :
             /\ (booking[b].pc # "done" /\ booking'[b].result = "booked") =>
                   /\ IsFreeSlot(appointments, booking[b].doctor_id,
                                 booking[b].start_at, booking[b].end_at)
                   /\ \E row \in appointments' \ appointments :
                         /\ appointments' = appointments \cup {row}
                         /\ row.doctor_id = booking[b].doctor_id
                         /\ row.start_at = booking[b].start_at
                         /\ row.end_at = booking[b].end_at
                         /\ row.status = "scheduled"
             /\ (booking'[b] # booking[b] /\ booking'[b].result # "booked") =>
                   appointments' = appointments]_vars
    /\ [][booking' = booking =>
             /\ Cardinality(appointments') = Cardinality(appointments)
             /\ \A a \in appointments : \E c \in appointments' :
                   /\ [c EXCEPT !.status = a.status] = a
                   /\ c.status \in {a.status, "canceled"}]_vars

\* two adjacent appointments of doctor 1, and a booking across them rejected
C37_Witness ==
    /\ \E a, c \in Live(appointments) :
          /\ a.doctor_id = 1 /\ c.doctor_id = 1
          /\ a.end_at = c.start_at
    /\ booking["b1"].pc = "done"
    /\ booking["b1"].start_at = 18 /\ booking["b1"].end_at = 20
    /\ booking["b1"].result = OutsideAvailability

(***************************************************************************)
(* C38.  Two booking requests for the same doctor with overlapping         *)
(* intervals that run concurrently cannot both succeed: under every        *)
(* interleaving of their steps no two appointments of the doctor that are  *)
(* not canceled overlap.                                                   *)
(***************************************************************************)
C38_NotBothBooked ==
    \A a, c \in appointments :
        (a # c /\ a.status # "canceled" /\ c.status # "canceled") => ~Overlapping(a, c)

(***************************************************************************)
(* C39.  Every slot that the availability lookup reports as free for a     *)
(* doctor can be booked by a booking request for that interval that        *)
(* follows at once: no step of the booking rejects it.                     *)
(***************************************************************************)
\* the lookup of check_doctor_availability (slots of 30 minutes) for the day
\* of the start reports the interval, whatever the part of day asked for
ReportedFree(rows, doctor_id, start_at, end_at) ==
    \E part_of_day \in PartsOfDay :
        <<start_at, end_at>> \in
            find_availability_slots(rows, doctor_id, start_at \div DayLen, part_of_day, 1)
C39_ReportedFreeIsBookable ==
    [][\A b \in Bookers :
          (/\ booking[b].pc \in {"slots", "conflicts", "insert"}
           /\ ReportedFree(appointments, booking[b].doctor_id,
                           booking[b].start_at, booking[b].end_at)) =>
              booking'[b].result \in {"", "booked"}]_vars

====
